---- MODULE Spec2Model ----
(***************************************************************************)
(* Model of the conversation orchestrator CanvasGPTSupervisor              *)
(* (src/backend/agents/supervisor.py) as driven by the HTTP endpoints of   *)
(* src/backend/main_fastapi.py.                                            *)
(*                                                                         *)
(* A Python str is a finite sequence of text tokens (a word, one blank     *)
(* " ", one newline "\n", one bracket "[" or "]").  Two strings are equal  *)
(* iff their token sequences are equal; lower() and strip() act on the     *)
(* tokens as they act on the characters.                                   *)
(* Python None / an absent Optional is the empty tuple <<>>, a present     *)
(* value v is the 1-tuple <<v>>, so "if self.pending_quiz:" is             *)
(* pending_quiz # <<>>.                                                    *)
(***************************************************************************)
EXTENDS Integers, Sequences, FiniteSets, Bags, TLC

VARIABLES
    canvas_agent,          \* TRUE: a CanvasPostAgent, FALSE: None
    messages,              \* self.state.messages, the turn log
    pending_quiz,          \* self.pending_quiz
    pending_announcement,  \* self.pending_announcement
    pending_assignment,    \* self.pending_assignment
    pending_page,          \* self.pending_page
    inflight,              \* the process_message calls suspended at an await
    history                \* observation: one record per call made on the supervisor

vars == <<canvas_agent, messages, pending_quiz, pending_announcement,
          pending_assignment, pending_page, inflight, history>>

\* Number of calls (process_message, reset_state) made on the supervisor.
MaxCalls == 3

None == <<>>
Some(v) == <<v>>

-----------------------------------------------------------------------------
(* Inputs                                                                  *)

\* process_message(message, file_content): the file is None or Some(f).
In(message, file) == [message |-> message, file |-> file]

\* The calls a client makes in the confirmation protocol: a confirmation, a
\* confirmation with a blank before it, a cancellation in capitals, a request
\* that names a course and a title, and a confirmation sent with an upload.
CoreInputs ==
    { In(<<"yes">>, None),
      In(<<" ", "yes">>, None),
      In(<<"Cancel">>, None),
      In(<<"[", "CS101", "]", " ", "title:", " ", "Midterm">>, None),
      In(<<"yes">>, Some("f.pdf")) }

\* Requests for the staging handlers: an assignment with a due date that has
\* the shape of the pattern but names no calendar day, a number of points and
\* no title; a request with a title and a signed number of points; a request
\* with nothing but the course, sent with an upload.  "yes" confirms.
RequestInputs ==
    { In(<<"[", "CS101", "]", " ", "due", " ", "13/45/2024", " ", "10:00", " ", "PM",
           " ", "points", " ", "should", " ", "be", " ", "50">>, None),
      In(<<"[", "CS101", "]", " ", "title:", " ", "HW", "\n",
           "points", " ", "should", " ", "be", " ", "-5">>, None),
      In(<<"[", "CS101", "]", " ", "homework">>, Some("f.pdf")),
      In(<<"yes">>, None) }

\* Two HTTP clients, each holding its own conversation with the service: a
\* request, its confirmation, a cancellation and a confirmation sent with an
\* upload, from either of them.
Clients == {1, 2}

ClientInputs ==
    { [message |-> m, file |-> None, client |-> c] :
        m \in { <<"[", "CS101", "]", " ", "title:", " ", "Midterm">>,
                <<"yes">>, <<"Cancel">> },
        c \in Clients }
    \cup { [message |-> <<"yes">>, file |-> Some("f.pdf"), client |-> c] : c \in Clients }

\* Messages for the routing step: the two commands that are routed without
\* TextModel, a request that names a course, a link and a due date in the
\* documented form, the same request sent with an upload, and "yes".
LinkRequest ==
    <<"[", "CS101", "]", " ", "link:", "https://example.org/a", " ",
      "due", " ", "date", " ", "should", " ", "be", " ",
      "12/7/2024", " ", "10:00", " ", "PM">>

RoutingInputs ==
    { In(<<"Show", " ", "PDFs">>, None),
      In(<<"Query", " ", "the", " ", "pdf", "[", "notes", "]">>, None),
      In(LinkRequest, None),
      In(LinkRequest, Some("f.pdf")),
      In(<<"yes">>, None) }

\* Messages for the turns that stage nothing: the two commands and a text
\* that names no course; around them, a request that stages and "yes".
OtherInputs ==
    { In(<<"Show", " ", "PDFs">>, None),
      In(<<"Query", " ", "the", " ", "pdf", "[", "notes", "]">>, None),
      In(<<"hello">>, None) }

StagingInputs == { In(LinkRequest, None) }

YesInputs == { In(<<"yes">>, None) }

\* Two requests that differ in course, title and text.
TwoRequests ==
    { In(<<"[", "CS101", "]", " ", "title:", " ", "Midterm">>, None),
      In(<<"[", "CS202", "]", " ", "quiz">>, None) }

\* Every message text in use.  The extraction operators below are pure
\* functions of the text; each is tabulated once over these texts.
AllTexts ==
    {in.message : in \in CoreInputs \cup RequestInputs \cup RoutingInputs
                          \cup OtherInputs \cup StagingInputs \cup YesInputs
                          \cup TwoRequests}

-----------------------------------------------------------------------------
(* Text                                                                    *)

WS == {" ", "\n"}

\* str.lower() on one token.
LowerToken(t) ==
    CASE t = "YES" -> "yes"
      [] t = "Post" -> "post"
      [] t = "Cancel" -> "cancel"
      [] t = "Show" -> "show"
      [] t = "PDFs" -> "pdfs"
      [] t = "Title:" -> "title:"
      [] t = "CS101" -> "cs101"
      [] t = "Midterm" -> "midterm"
      [] t = "HW" -> "hw"
      [] t = "PM" -> "pm"
      [] t = "AM" -> "am"
      [] t = "Query" -> "query"
      [] t = "Canvas_Post" -> "canvas_post"
      [] t = "Online" -> "online"
      [] OTHER -> t

\* str.lower()
Lower(s) == [i \in DOMAIN s |-> LowerToken(s[i])]

\* str.strip(): drops the leading and trailing whitespace.
RECURSIVE LStrip(_)
LStrip(s) == IF s # <<>> /\ Head(s) \in WS THEN LStrip(Tail(s)) ELSE s

RECURSIVE RStrip(_)
RStrip(s) ==
    IF s # <<>> /\ s[Len(s)] \in WS THEN RStrip(SubSeq(s, 1, Len(s) - 1)) ELSE s

Strip(s) == RStrip(LStrip(s))

\* s.startswith(p)
StartsWith(s, p) == Len(s) >= Len(p) /\ SubSeq(s, 1, Len(p)) = p

\* The list literals of process_message.
ConfirmationWords ==
    { <<"yes">>, <<"post", " ", "it">>, <<"post">>, <<"yes", " ", "post", " ", "it">> }

CancellationWords ==
    { <<"no">>, <<"cancel">>, <<"dont", " ", "post">>, <<"don't", " ", "post">> }

\* lower_message = message.lower(); lower_message in [...]
IsConfirmation(message) == Lower(message) \in ConfirmationWords

IsCancellation(message) == Lower(message) \in CancellationWords

\* re.search(r'\[(.*?)\]', message): the leftmost "[" that has a "]" after it
\* on the same line, and the nearest such "]".  <<i, j>> or <<>>.
BracketSpans(message) ==
    { <<i, j>> \in (DOMAIN message) \X (DOMAIN message) :
        /\ i < j
        /\ message[i] = "["
        /\ message[j] = "]"
        /\ \A k \in (i + 1)..(j - 1) : message[k] # "\n" }

CourseSearch(message) ==
    LET S == BracketSpans(message) IN
    IF S = {} THEN None
    ELSE LET i == CHOOSE a \in {s[1] : s \in S} : \A b \in {s[1] : s \in S} : a <= b
             js == {s[2] : s \in {t \in S : t[1] = i}}
             j == CHOOSE a \in js : \A b \in js : a <= b
         IN  Some(SubSeq(message, i + 1, j - 1))

CourseTable == [m \in AllTexts |-> CourseSearch(m)]

\* course_match = re.search(r'\[(.*?)\]', message), group(1) when it matched.
CourseMatch(message) == CourseTable[message]

\* The end of the line that starts at token k: the last index before the next
\* newline (or the end of the string).
LineEnd(message, k) ==
    LET nl == {n \in k..Len(message) : message[n] = "\n"} IN
    IF nl = {} THEN Len(message)
    ELSE (CHOOSE a \in nl : \A b \in nl : a <= b) - 1

\* One attempt of r'title:\s*([^\n]+)' at the "title:" token i: \s* is greedy
\* over blanks and newlines and backs off until one non-newline token is left
\* for the group.  The captured group, or <<>> when the attempt fails.
TitleGroupAt(message, i) ==
    LET n == Len(message)
        \* candidate group starts p: everything between i and p is whitespace
        starts == {p \in (i + 1)..n :
                      /\ \A k \in (i + 1)..(p - 1) : message[k] \in WS
                      /\ message[p] # "\n"}
    IN  IF starts = {} THEN None
        ELSE LET p == CHOOSE a \in starts : \A b \in starts : a >= b
             IN  Some(SubSeq(message, p, LineEnd(message, p)))

\* _extract_title: None, or Some(title) (the title may be the empty string).
TitleSearch(message) ==
    LET low == Lower(message)
        hits == {i \in DOMAIN message :
                    low[i] = "title:" /\ TitleGroupAt(message, i) # None}
    IN  IF hits = {} THEN None
        ELSE LET i == CHOOSE a \in hits : \A b \in hits : a <= b
             IN  Some(Strip(TitleGroupAt(message, i)[1]))

TitleTable == [m \in AllTexts |-> TitleSearch(m)]

_extract_title(message) == TitleTable[message]

\* Python truthiness of an Optional[str]: None and "" are false.
TruthyStr(o) == o # None /\ o[1] # <<>>


-----------------------------------------------------------------------------
(* Parameter extraction used by the staging handlers                       *)

\* int() of the digit tokens the inputs use.
IntOf(t) == CASE t = "50" -> 50 [] t = "0" -> 0 [] OTHER -> -1

IsDigits(t) == IntOf(t) >= 0

\* The index after the blanks/newlines that start at k (\s*).
RECURSIVE SkipWS(_, _)
SkipWS(message, k) ==
    IF k <= Len(message) /\ message[k] \in WS THEN SkipWS(message, k + 1) ELSE k

\* re.search(r'points\s*should\s*be\s*(\d+)', message); the default is 100.
DefaultPoints == 100

\* Mutant of PointsSearch: the marker is not looked for.
PointsSearch_ignores_marker(message) == DefaultPoints

PointsSearch(message) ==
    LET n == Len(message)
        tok(k) == IF k <= n THEN message[k] ELSE ""
        hits == {i \in DOMAIN message :
                    /\ message[i] = "points"
                    /\ LET a == SkipWS(message, i + 1)
                           b == SkipWS(message, a + 1)
                           c == SkipWS(message, b + 1)
                       IN  tok(a) = "should" /\ tok(b) = "be" /\ IsDigits(tok(c))}
    IN  IF hits = {} THEN DefaultPoints
        ELSE LET i == CHOOSE a \in hits : \A b \in hits : a <= b
                 c == SkipWS(message, SkipWS(message, SkipWS(message, i + 1) + 1) + 1)
             IN  IntOf(message[c])

PointsTable == [m \in AllTexts |-> PointsSearch(m)]

PointsOf(message) == PointsTable[message]

\* \d{1,2}/\d{1,2}/\d{4}, \d{1,2}:\d{2} and AM|PM on the tokens in use, and
\* whether strptime("%m/%d/%Y %I:%M %p") accepts them.
DateShape(t) == t \in {"12/7/2024", "13/45/2024"}

TimeShape(t) == t \in {"10:00", "25:00"}

AmPmShape(t) == LowerToken(t) \in {"am", "pm"}

Strptime(date, time, ampm) ==
    IF date = "12/7/2024" /\ time = "10:00"
    THEN Some(IF LowerToken(ampm) = "pm" THEN "2024-12-07T22:00:00Z"
              ELSE "2024-12-07T10:00:00Z")
    ELSE None

\* AssignmentAgent.parse_due_date: the first match of
\* r'due\s*(?:date|on|by)?\s*(<date>\s+<time>\s*<am|pm>)', re.IGNORECASE; None
\* when nothing matches or strptime raises ValueError.
DueSearch(query) ==
    LET n == Len(query)
        tok(k) == IF k >= 1 /\ k <= n THEN query[k] ELSE ""
        \* the index of the date token of an attempt at "due" token i, or 0
        dateAt(i) ==
            LET a == SkipWS(query, i + 1)
                b == IF LowerToken(tok(a)) \in {"date", "on", "by"}
                     THEN SkipWS(query, a + 1) ELSE a
            IN  IF DateShape(tok(b)) THEN b ELSE 0
        matches(i) ==
            /\ LowerToken(query[i]) = "due"
            /\ dateAt(i) # 0
            /\ LET b == dateAt(i)
                   c == SkipWS(query, b + 1)
                   d == SkipWS(query, c + 1)
               IN  c > b + 1 /\ TimeShape(tok(c)) /\ AmPmShape(tok(d))
        hits == {i \in DOMAIN query : matches(i)}
    IN  IF hits = {} THEN None
        ELSE LET i == CHOOSE a \in hits : \A b \in hits : a <= b
                 b == dateAt(i)
                 c == SkipWS(query, b + 1)
                 d == SkipWS(query, c + 1)
             IN  Strptime(query[b], query[c], query[d])

DueTable == [m \in AllTexts |-> DueSearch(m)]

parse_due_date(query) == DueTable[query]

\* key in query_lower, for a key that is a run of tokens.
Contains(s, key) ==
    \E i \in 1..(Len(s) - Len(key) + 1) : SubSeq(s, i, i + Len(key) - 1) = key

\* AssignmentAgent.SUBMISSION_TYPES as <<key, values>> pairs.
SUBMISSION_TYPES ==
    { << <<"no", " ", "submission">>, {"none"} >>,
      << <<"text", " ", "entry">>, {"online_text_entry"} >>,
      << <<"website", " ", "url">>, {"online_url"} >>,
      << <<"file", " ", "uploads">>, {"online_upload"} >>,
      << <<"media", " ", "recording">>, {"media_recording"} >>,
      << <<"student", " ", "annotation">>, {"student_annotation"} >>,
      << <<"external", " ", "tool">>, {"external_tool"} >>,
      << <<"on", " ", "paper">>, {"on_paper"} >>,
      << <<"online">>,
         {"online_text_entry", "online_url", "online_upload", "media_recording"} >> }

\* AssignmentAgent.SUBMISSION_TYPES.items(): the keys in the order of the
\* dict literal, each with its list of values.
SubmissionItems ==
    << << <<"no", " ", "submission">>, <<"none">> >>,
       << <<"text", " ", "entry">>, <<"online_text_entry">> >>,
       << <<"website", " ", "url">>, <<"online_url">> >>,
       << <<"file", " ", "uploads">>, <<"online_upload">> >>,
       << <<"media", " ", "recording">>, <<"media_recording">> >>,
       << <<"student", " ", "annotation">>, <<"student_annotation">> >>,
       << <<"external", " ", "tool">>, <<"external_tool">> >>,
       << <<"on", " ", "paper">>, <<"on_paper">> >>,
       << <<"online">>,
          <<"online_text_entry", "online_url", "online_upload", "media_recording">> >> >>

\* The loop of parse_submission_types from item k on: submission_types after
\* the extend calls.
RECURSIVE Extended(_, _)
Extended(query_lower, k) ==
    IF k > Len(SubmissionItems) THEN <<>>
    ELSE (IF Contains(query_lower, SubmissionItems[k][1])
          THEN SubmissionItems[k][2] ELSE <<>>) \o Extended(query_lower, k + 1)

\* A list up to the order of its elements: how many times it holds each value.
BagOfList(l) == [v \in {l[i] : i \in DOMAIN l} |-> Cardinality({i \in DOMAIN l : l[i] = v})]

\* Mutant of ListOfSet: the list is returned as the loop left it.
ListOfSet_keeps(l) == BagOfList(l)

\* list(set(l)): each value of l once, in an order Python does not fix.
ListOfSet(l) == SetToBag({l[i] : i \in DOMAIN l})

\* parse_submission_types, the returned List[str] up to its order.
SubmissionList(query) ==
    LET query_lower == Lower(query)
        submission_types == Extended(query_lower, 1)
    IN  ListOfSet(IF submission_types = <<>>
                  THEN <<"online_text_entry">> ELSE submission_types)

\* parse_submission_types: list(set(...)), modelled as the set.
SubmissionTypesOf(query) ==
    LET query_lower == Lower(query)
        found == UNION {kv[2] : kv \in {x \in SUBMISSION_TYPES : Contains(query_lower, x[1])}}
    IN  IF found = {} THEN {"online_text_entry"} ELSE found

SubmissionTypesTable == [m \in AllTexts |-> SubmissionTypesOf(m)]

parse_submission_types(query) == SubmissionTypesTable[query]

\* What TextModel returns for the content-extraction prompt of a message.
CleanedContent(message) == <<"LLM:">> \o message

\* re.search(r'link:(https?://[^\s]+)', message): the URL token after "link:".
IsUrl(t) == t \in {"https://example.org/a"}

UrlSearch(message) ==
    LET hits == {i \in 1..(Len(message) - 1) : message[i] = "link:" /\ IsUrl(message[i + 1])}
    IN  IF hits = {} THEN None
        ELSE Some(message[(CHOOSE a \in hits : \A b \in hits : a <= b) + 1])

UrlTable == [m \in AllTexts |-> UrlSearch(m)]

UrlMatch(message) == UrlTable[message]

-----------------------------------------------------------------------------
(* Handlers.  P is the record of the four pending attributes; every        *)
(* handler returns the attributes after it, the returned dict, the         *)
(* CourseBackend create invocations it made and whether it raised.         *)

Kinds == {"quiz", "announcement", "assignment", "page"}

Pending ==
    [quiz |-> pending_quiz, announcement |-> pending_announcement,
     assignment |-> pending_assignment, page |-> pending_page]

\* The keys every dict literal returned by a handler carries.
ResponseKeys == {"response", "agent", "conversation_id"}

Ret(pend, response, agent, created) ==
    [pend |-> pend, response |-> response, agent |-> agent,
     created |-> created, raised |-> FALSE, keys |-> ResponseKeys]

\* Mutant of Raise: the exception wipes the pending attributes.
Raise_clears(pend) ==
    [pend |-> [k \in DOMAIN pend |-> None], response |-> "raised", agent |-> "raised",
     created |-> <<>>, raised |-> TRUE, keys |-> {}]

\* An exception that leaves the handler: the attributes are as they were.
Raise(pend) ==
    [pend |-> pend, response |-> "raised", agent |-> "raised",
     created |-> <<>>, raised |-> TRUE, keys |-> {}]

NotConfigured == "Canvas is not configured. Please provide Canvas API credentials."

Clarification == "Please specify a course name in square brackets, e.g. [Course Name]"

\* content.get("file_content") of the dict the file branch passes; a context
\* string has none.
FileOf(content) == IF content.is_dict THEN content.file_content ELSE None

FileNameOf(content) == IF content.is_dict THEN content.filename ELSE None

Context == [is_dict |-> FALSE]

FileDict(file) == [is_dict |-> TRUE, file_content |-> Some(file), filename |-> Some(file)]

\* Mutant of _handle_quiz_request: the handler creates the quiz itself as
\* soon as it has staged it.
_handle_quiz_request_commits(P, configured, message, content, llm, sid) ==
    IF ~configured THEN Ret(P, NotConfigured, "canvas_quiz", <<>>)
    ELSE IF CourseMatch(message) = None THEN Ret(P, Clarification, "canvas_quiz", <<>>)
    ELSE IF llm = "raise" THEN Raise(P)
    ELSE LET t == _extract_title(message)
             staged == [course_name |-> CourseMatch(message)[1],
                        content |-> CleanedContent(message),
                        title |-> IF TruthyStr(t) THEN t[1] ELSE <<"Quiz">>,
                        sid |-> sid]
         IN  Ret([P EXCEPT !.quiz = Some(staged)],
                 "I've prepared the quiz", "canvas_quiz",
                 <<[kind |-> "quiz", action |-> staged, out |-> "ok"]>>)

\* Mutant of _handle_quiz_request: a quiz that is already staged is kept.
_handle_quiz_request_keeps_first(P, configured, message, content, llm, sid) ==
    IF ~configured THEN Ret(P, NotConfigured, "canvas_quiz", <<>>)
    ELSE IF CourseMatch(message) = None THEN Ret(P, Clarification, "canvas_quiz", <<>>)
    ELSE IF llm = "raise" THEN Raise(P)
    ELSE LET t == _extract_title(message)
             staged == [course_name |-> CourseMatch(message)[1],
                        content |-> CleanedContent(message),
                        title |-> IF TruthyStr(t) THEN t[1] ELSE <<"Quiz">>,
                        sid |-> sid]
         IN  Ret(IF P.quiz # None THEN P ELSE [P EXCEPT !.quiz = Some(staged)],
                 "I've prepared the quiz", "canvas_quiz", <<>>)

\* _handle_quiz_request.  llm: the outcome of the TextModel call.
_handle_quiz_request(P, configured, message, content, llm, sid) ==
    IF ~configured THEN Ret(P, NotConfigured, "canvas_quiz", <<>>)
    ELSE IF CourseMatch(message) = None THEN Ret(P, Clarification, "canvas_quiz", <<>>)
    ELSE IF llm = "raise" THEN Raise(P)
    ELSE LET t == _extract_title(message)
             staged == [course_name |-> CourseMatch(message)[1],
                        content |-> CleanedContent(message),
                        title |-> IF TruthyStr(t) THEN t[1] ELSE <<"Quiz">>,
                        sid |-> sid]
         IN  Ret([P EXCEPT !.quiz = Some(staged)],
                 "I've prepared the quiz", "canvas_quiz", <<>>)

\* Mutant of _handle_post_request: the check of course_match is missing and a
\* message without a course is staged with an empty course name.
_handle_post_request_unchecked(P, configured, message, content, llm, gen, sid) ==
    IF ~configured THEN Ret(P, NotConfigured, "canvas_post", <<>>)
    ELSE IF llm = "raise" THEN Raise(P)
    ELSE LET t == _extract_title(message)
             staged == [course_name |-> IF CourseMatch(message) = None THEN <<>>
                                        ELSE CourseMatch(message)[1],
                        content |-> CleanedContent(message),
                        title |-> IF TruthyStr(t) THEN t[1] ELSE <<"LLM-title">>,
                        file_content |-> FileOf(content),
                        filename |-> IF FileOf(content) # None
                                     THEN FileNameOf(content) ELSE None,
                        sid |-> sid]
         IN  Ret([P EXCEPT !.announcement = Some(staged)],
                 "Here's the announcement", "canvas_post", <<>>)

\* Mutant of _handle_post_request: the check of self.canvas_agent is missing.
_handle_post_request_unconfigured(P, configured, message, content, llm, gen, sid) ==
    IF CourseMatch(message) = None THEN Ret(P, Clarification, "canvas_post", <<>>)
    ELSE IF llm = "raise" THEN Raise(P)
    ELSE LET t == _extract_title(message)
             title == IF TruthyStr(t) THEN t[1]
                      ELSE IF gen = "generated" THEN <<"LLM-title">>
                      ELSE <<"Generated", " ", "Content">>
             staged == [course_name |-> CourseMatch(message)[1],
                        content |-> CleanedContent(message),
                        title |-> title,
                        file_content |-> FileOf(content),
                        filename |-> IF FileOf(content) # None
                                     THEN FileNameOf(content) ELSE None,
                        sid |-> sid]
         IN  Ret([P EXCEPT !.announcement = Some(staged)],
                 "Here's the announcement", "canvas_post", <<>>)

\* _handle_post_request.  gen: "generated" or "fallback" (generate_title
\* catches its own failure and returns the fallback title).
_handle_post_request(P, configured, message, content, llm, gen, sid) ==
    IF ~configured THEN Ret(P, NotConfigured, "canvas_post", <<>>)
    ELSE IF CourseMatch(message) = None THEN Ret(P, Clarification, "canvas_post", <<>>)
    ELSE IF llm = "raise" THEN Raise(P)
    ELSE LET t == _extract_title(message)
             title == IF TruthyStr(t) THEN t[1]
                      ELSE IF gen = "generated" THEN <<"LLM-title">>
                      ELSE <<"Generated", " ", "Content">>
             staged == [course_name |-> CourseMatch(message)[1],
                        content |-> CleanedContent(message),
                        title |-> title,
                        file_content |-> FileOf(content),
                        filename |-> IF FileOf(content) # None
                                     THEN FileNameOf(content) ELSE None,
                        sid |-> sid]
         IN  Ret([P EXCEPT !.announcement = Some(staged)],
                 "Here's the announcement", "canvas_post", <<>>)

\* Mutant of _handle_assignment_request: a due date that does not parse is an
\* error of the request.
_handle_assignment_request_strict(P, configured, message, content, llm, sid) ==
    IF ~configured THEN Ret(P, NotConfigured, "canvas_assignment", <<>>)
    ELSE IF CourseMatch(message) = None
         THEN Ret(P, Clarification, "canvas_assignment", <<>>)
    ELSE IF llm = "raise" THEN Raise(P)
    ELSE IF parse_due_date(message) = None THEN Raise(P)
    ELSE LET staged == [course_name |-> CourseMatch(message)[1],
                        content |-> CleanedContent(message),
                        title |-> _extract_title(message),
                        points |-> PointsOf(message),
                        submission_types |-> parse_submission_types(message),
                        due_at |-> parse_due_date(message),
                        file_content |-> FileOf(content),
                        file_name |-> IF FileOf(content) # None
                                      THEN FileNameOf(content) ELSE None,
                        sid |-> sid]
         IN  Ret([P EXCEPT !.assignment = Some(staged)],
                 "I've prepared the assignment", "canvas_assignment", <<>>)

\* _handle_assignment_request.
_handle_assignment_request(P, configured, message, content, llm, sid) ==
    IF ~configured THEN Ret(P, NotConfigured, "canvas_assignment", <<>>)
    ELSE IF CourseMatch(message) = None
         THEN Ret(P, Clarification, "canvas_assignment", <<>>)
    ELSE IF llm = "raise" THEN Raise(P)
    ELSE LET staged == [course_name |-> CourseMatch(message)[1],
                        content |-> CleanedContent(message),
                        title |-> _extract_title(message),
                        points |-> PointsOf(message),
                        submission_types |-> parse_submission_types(message),
                        file_content |-> FileOf(content),
                        file_name |-> IF FileOf(content) # None
                                      THEN FileNameOf(content) ELSE None,
                        sid |-> sid]
         IN  Ret([P EXCEPT !.assignment = Some(staged)],
                 "I've prepared the assignment", "canvas_assignment", <<>>)

\* Mutant of _handle_page_request: a request without a course drops the page
\* staged before it.
_handle_page_request_drops(P, configured, message, content, llm, web, sid) ==
    IF ~configured THEN Ret(P, NotConfigured, "canvas_page", <<>>)
    ELSE IF CourseMatch(message) = None
         THEN Ret([P EXCEPT !.page = None], Clarification, "canvas_page", <<>>)
    ELSE IF UrlMatch(message) # None /\ web = "raise" THEN Raise(P)
    ELSE IF UrlMatch(message) # None /\ web = "fail"
         THEN Ret(P, "Failed to extract content from URL", "canvas_page", <<>>)
    ELSE IF UrlMatch(message) = None /\ llm = "raise" THEN Raise(P)
    ELSE LET staged == [course_name |-> CourseMatch(message)[1],
                        content |-> IF UrlMatch(message) # None
                                    THEN <<"WEB:", UrlMatch(message)[1]>>
                                    ELSE CleanedContent(message),
                        title |-> _extract_title(message),
                        file_content |-> FileOf(content),
                        file_name |-> IF FileOf(content) # None
                                      THEN FileNameOf(content) ELSE None,
                        sid |-> sid]
         IN  Ret([P EXCEPT !.page = Some(staged)],
                 "I've prepared the page", "canvas_page", <<>>)

\* Mutant of _handle_page_request: a link that could not be fetched is staged
\* with empty content.
_handle_page_request_stages_failed(P, configured, message, content, llm, web, sid) ==
    IF ~configured THEN Ret(P, NotConfigured, "canvas_page", <<>>)
    ELSE IF CourseMatch(message) = None THEN Ret(P, Clarification, "canvas_page", <<>>)
    ELSE IF UrlMatch(message) # None /\ web = "raise" THEN Raise(P)
    ELSE IF UrlMatch(message) = None /\ llm = "raise" THEN Raise(P)
    ELSE LET staged == [course_name |-> CourseMatch(message)[1],
                        content |-> IF UrlMatch(message) # None
                                    THEN IF web = "fail" THEN <<>>
                                         ELSE <<"WEB:", UrlMatch(message)[1]>>
                                    ELSE CleanedContent(message),
                        title |-> _extract_title(message),
                        file_content |-> FileOf(content),
                        file_name |-> IF FileOf(content) # None
                                      THEN FileNameOf(content) ELSE None,
                        sid |-> sid]
         IN  Ret([P EXCEPT !.page = Some(staged)],
                 IF UrlMatch(message) # None /\ web = "fail"
                 THEN "Failed to extract content from URL"
                 ELSE "I've prepared the page", "canvas_page", <<>>)

\* _handle_page_request.  web: the outcome of WebFetcher for a link: request.
_handle_page_request(P, configured, message, content, llm, web, sid) ==
    IF ~configured THEN Ret(P, NotConfigured, "canvas_page", <<>>)
    ELSE IF CourseMatch(message) = None THEN Ret(P, Clarification, "canvas_page", <<>>)
    ELSE IF UrlMatch(message) # None /\ web = "raise" THEN Raise(P)
    ELSE IF UrlMatch(message) # None /\ web = "fail"
         THEN Ret(P, "Failed to extract content from URL", "canvas_page", <<>>)
    ELSE IF UrlMatch(message) = None /\ llm = "raise" THEN Raise(P)
    ELSE LET staged == [course_name |-> CourseMatch(message)[1],
                        content |-> IF UrlMatch(message) # None
                                    THEN <<"WEB:", UrlMatch(message)[1]>>
                                    ELSE CleanedContent(message),
                        title |-> _extract_title(message),
                        file_content |-> FileOf(content),
                        file_name |-> IF FileOf(content) # None
                                      THEN FileNameOf(content) ELSE None,
                        sid |-> sid]
         IN  Ret([P EXCEPT !.page = Some(staged)],
                 "I've prepared the page", "canvas_page", <<>>)

-----------------------------------------------------------------------------
(* Confirmation and cancellation.  out is what CourseBackend does with the *)
(* create call: "ok", "fail" (a result that reports failure) or "raise".   *)

Call(kind, action, out) == [kind |-> kind, action |-> action, out |-> out]

\* Mutant of _handle_quiz_confirmation: a created quiz empties the four
\* attributes.
_handle_quiz_confirmation_clears_all(P, configured, out) ==
    IF ~configured THEN Ret(P, NotConfigured, "canvas_quiz", <<>>)
    ELSE LET call == <<Call("quiz", P.quiz[1], out)>> IN
         CASE out = "ok" ->
                Ret([k \in DOMAIN P |-> None], "Successfully created quiz", "canvas_quiz", call)
           [] out = "fail" ->
                Ret([P EXCEPT !.quiz = None], "Failed to create quiz", "canvas_quiz", call)
           [] OTHER ->
                Ret(P, "Error creating quiz", "canvas_quiz", call)

\* _handle_quiz_confirmation
_handle_quiz_confirmation(P, configured, out) ==
    IF ~configured THEN Ret(P, NotConfigured, "canvas_quiz", <<>>)
    ELSE LET call == <<Call("quiz", P.quiz[1], out)>> IN
         CASE out = "ok" ->
                Ret([P EXCEPT !.quiz = None], "Successfully created quiz", "canvas_quiz", call)
           [] out = "fail" ->
                Ret([P EXCEPT !.quiz = None], "Failed to create quiz", "canvas_quiz", call)
           [] OTHER ->
                \* except Exception: the assignment to None was skipped
                Ret(P, "Error creating quiz", "canvas_quiz", call)

\* _handle_announcement_confirmation
_handle_announcement_confirmation(P, configured, out) ==
    IF ~configured THEN Ret(P, NotConfigured, "canvas_post", <<>>)
    ELSE LET call == <<Call("announcement", P.announcement[1], out)>> IN
         CASE out = "ok" ->
                Ret([P EXCEPT !.announcement = None],
                    IF P.announcement[1].file_content # None
                    THEN "Successfully posted announcement with file attachment"
                    ELSE "Successfully posted announcement", "canvas_post", call)
           [] out = "fail" ->
                Ret([P EXCEPT !.announcement = None],
                    "Failed to post announcement", "canvas_post", call)
           [] OTHER ->
                Ret(P, "Error posting announcement", "canvas_post", call)

\* _handle_assignment_confirmation.  course: what get_course_id gives:
\* "found", "none" (a falsy id) or "raise".
_handle_assignment_confirmation(P, configured, course, out) ==
    IF ~configured THEN Ret(P, NotConfigured, "canvas_assignment", <<>>)
    ELSE IF course = "raise"
         THEN Ret(P, "Error creating assignment", "canvas_assignment", <<>>)
    ELSE IF course = "none"
         THEN Ret(P, "Could not find course", "canvas_assignment", <<>>)
    ELSE LET call == <<Call("assignment", P.assignment[1], out)>> IN
         CASE out = "ok" ->
                Ret([P EXCEPT !.assignment = None],
                    "Successfully created assignment", "canvas_assignment", call)
           [] out = "fail" ->
                Ret([P EXCEPT !.assignment = None],
                    "Failed to create assignment", "canvas_assignment", call)
           [] OTHER ->
                Ret(P, "Error creating assignment", "canvas_assignment", call)

\* _handle_page_confirmation
_handle_page_confirmation(P, configured, out) ==
    IF ~configured THEN Ret(P, NotConfigured, "canvas_page", <<>>)
    ELSE LET call == <<Call("page", P.page[1], out)>> IN
         CASE out = "ok" ->
                Ret([P EXCEPT !.page = None], "Successfully created page", "canvas_page", call)
           [] out = "fail" ->
                Ret([P EXCEPT !.page = None], "Failed to create page", "canvas_page", call)
           [] OTHER ->
                Ret(P, "Error creating page", "canvas_page", call)

\* The kind the if/elif chain of process_message (and of _handle_cancellation)
\* selects: the first occupied attribute in the order of the chain, or "none".
FirstPending(P) ==
    IF P.quiz # None THEN "quiz"
    ELSE IF P.announcement # None THEN "announcement"
    ELSE IF P.assignment # None THEN "assignment"
    ELSE IF P.page # None THEN "page"
    ELSE "none"

\* The confirmation branch of process_message (lines 201-209), entered with
\* some attribute occupied.
Confirm(P, configured, course, out) ==
    CASE FirstPending(P) = "quiz" -> _handle_quiz_confirmation(P, configured, out)
      [] FirstPending(P) = "announcement" ->
            _handle_announcement_confirmation(P, configured, out)
      [] FirstPending(P) = "assignment" ->
            _handle_assignment_confirmation(P, configured, course, out)
      [] OTHER -> _handle_page_confirmation(P, configured, out)

\* Mutant of _handle_cancellation: the chain ends in the page branch instead
\* of the "Nothing to cancel." return.
_handle_cancellation_no_default(P) ==
    CASE P.quiz # None ->
            Ret([P EXCEPT !.quiz = None], "Quiz creation cancelled.", "canvas_quiz", <<>>)
      [] P.quiz = None /\ P.announcement # None ->
            Ret([P EXCEPT !.announcement = None], "Announcement cancelled.", "canvas_post", <<>>)
      [] P.quiz = None /\ P.announcement = None /\ P.assignment # None ->
            Ret([P EXCEPT !.assignment = None],
                "Assignment creation cancelled.", "canvas_assignment", <<>>)
      [] OTHER ->
            Ret([P EXCEPT !.page = None], "Page creation cancelled.", "canvas_page", <<>>)

\* Mutant of _handle_cancellation: the chain runs from the page to the quiz.
_handle_cancellation_last_first(P) ==
    CASE P.page # None ->
            Ret([P EXCEPT !.page = None], "Page creation cancelled.", "canvas_page", <<>>)
      [] P.page = None /\ P.assignment # None ->
            Ret([P EXCEPT !.assignment = None],
                "Assignment creation cancelled.", "canvas_assignment", <<>>)
      [] P.page = None /\ P.assignment = None /\ P.announcement # None ->
            Ret([P EXCEPT !.announcement = None], "Announcement cancelled.", "canvas_post", <<>>)
      [] P.page = None /\ P.assignment = None /\ P.announcement = None /\ P.quiz # None ->
            Ret([P EXCEPT !.quiz = None], "Quiz creation cancelled.", "canvas_quiz", <<>>)
      [] OTHER -> Ret(P, "Nothing to cancel.", "general", <<>>)

\* _handle_cancellation
_handle_cancellation(P) ==
    CASE FirstPending(P) = "quiz" ->
            Ret([P EXCEPT !.quiz = None], "Quiz creation cancelled.", "canvas_quiz", <<>>)
      [] FirstPending(P) = "announcement" ->
            Ret([P EXCEPT !.announcement = None], "Announcement cancelled.", "canvas_post", <<>>)
      [] FirstPending(P) = "assignment" ->
            Ret([P EXCEPT !.assignment = None],
                "Assignment creation cancelled.", "canvas_assignment", <<>>)
      [] FirstPending(P) = "page" ->
            Ret([P EXCEPT !.page = None], "Page creation cancelled.", "canvas_page", <<>>)
      [] OTHER -> Ret(P, "Nothing to cancel.", "general", <<>>)

-----------------------------------------------------------------------------
(* Routing and dispatch                                                    *)

\* The supervisor of main_fastapi.py is built without AWS and NVIDIA
\* credentials: both agents are None.
pdf_listing_agent == FALSE

rag_agent == FALSE

\* Mutant of _route_message: TextModel is asked before the two commands are
\* looked for.
_route_message_asks_first(message, reply) ==
    LET message_lower == Strip(Lower(message)) IN
    IF message_lower = <<"show", " ", "pdfs">>
    THEN [route |-> <<"pdf_listing">>, asked |-> TRUE]
    ELSE IF StartsWith(message_lower, <<"query", " ", "the", " ", "pdf", "[">>)
    THEN [route |-> <<"rag_query">>, asked |-> TRUE]
    ELSE IF reply = <<"RAISE">>
    THEN [route |-> <<"general">>, asked |-> TRUE]
    ELSE [route |-> Lower(Strip(reply)), asked |-> TRUE]

\* _route_message.  reply: what TextModel returns, or <<"RAISE">> when the
\* call raises.  The route, and whether TextModel was asked.
_route_message(message, reply) ==
    LET message_lower == Strip(Lower(message)) IN
    IF message_lower = <<"show", " ", "pdfs">>
    THEN [route |-> <<"pdf_listing">>, asked |-> FALSE]
    ELSE IF StartsWith(message_lower, <<"query", " ", "the", " ", "pdf", "[">>)
    THEN [route |-> <<"rag_query">>, asked |-> FALSE]
    ELSE IF reply = <<"RAISE">>
    THEN [route |-> <<"general">>, asked |-> TRUE]
    ELSE [route |-> Lower(Strip(reply)), asked |-> TRUE]

\* _handle_list_request
_handle_list_request(P, configured, cap) ==
    IF ~configured THEN Ret(P, NotConfigured, "canvas_list", <<>>)
    ELSE CASE cap = "ok" -> Ret(P, "Available courses", "canvas_list", <<>>)
           [] cap = "fail" ->
                Ret(P, "No courses found or error retrieving courses.", "canvas_list", <<>>)
           [] OTHER -> Raise(P)

\* Mutant of _handle_web_search: the search empties the pending attributes.
_handle_web_search_clears(P, cap) ==
    IF cap = "raise" THEN Raise(P)
    ELSE Ret([k \in DOMAIN P |-> None], "web answer", "web_search", <<>>)

\* _handle_web_search
_handle_web_search(P, cap) ==
    IF cap = "raise" THEN Raise(P) ELSE Ret(P, "web answer", "web_search", <<>>)

\* _handle_general_request
_handle_general_request(P, cap) ==
    IF cap = "raise" THEN Raise(P) ELSE Ret(P, "model answer", "general", <<>>)

\* The pdf_listing branch of process_message (lines 246-272).
PdfListing(P, cap) ==
    IF ~pdf_listing_agent
    THEN Ret(P, "PDF listing is not configured. Please provide AWS credentials.",
             "pdf_listing", <<>>)
    ELSE CASE cap = "ok" -> Ret(P, "Available PDF folders", "pdf_listing", <<>>)
           [] cap = "fail" -> Ret(P, "Error listing PDFs", "pdf_listing", <<>>)
           [] OTHER -> Raise(P)

\* The rag_query branch of process_message (lines 274-291).
RagQuery(P, cap) ==
    IF ~rag_agent
    THEN Ret(P, "RAG query agent is not configured properly.", "rag_query", <<>>)
    ELSE IF cap = "raise" THEN Raise(P) ELSE Ret(P, "rag answer", "rag_query", <<>>)

\* The if/elif chain of process_message after routing (lines 246-354).
\* file: None or Some(f) with f successfully extracted.  cap: the outcome of
\* the capability call the selected handler makes; gen: of generate_title.
Dispatch(P, configured, message, file, route, cap, gen, sid) ==
    LET llm == IF cap = "raise" THEN "raise" ELSE "ok" IN
    IF route = <<"pdf_listing">> THEN PdfListing(P, cap)
    ELSE IF route = <<"rag_query">> THEN RagQuery(P, cap)
    ELSE IF file # None THEN
        IF route = <<"assignment">>
        THEN _handle_assignment_request(P, configured, message, FileDict(file[1]), llm, sid)
        ELSE IF route = <<"page">>
        THEN _handle_page_request(P, configured, message, FileDict(file[1]), llm, cap, sid)
        ELSE IF route = <<"quiz">>
        THEN _handle_quiz_request(P, configured, message, FileDict(file[1]), llm, sid)
        ELSE _handle_post_request(P, configured, message, FileDict(file[1]), llm, gen, sid)
    ELSE IF route = <<"canvas_quiz">>
    THEN _handle_quiz_request(P, configured, message, Context, llm, sid)
    ELSE IF route = <<"canvas_post">>
    THEN _handle_post_request(P, configured, message, Context, llm, gen, sid)
    ELSE IF route = <<"canvas_list">>
    THEN _handle_list_request(P, configured, cap)
    ELSE IF route = <<"canvas_assignment">>
    THEN _handle_assignment_request(P, configured, message, Context, llm, sid)
    ELSE IF route = <<"canvas_page">>
    THEN _handle_page_request(P, configured, message, Context, llm, cap, sid)
    ELSE IF route = <<"web_search">>
    THEN _handle_web_search(P, cap)
    ELSE _handle_general_request(P, cap)

\* Whether process_message appends the handler's response to the log: the
\* file branches return the handler's dict directly (lines 294-338).
StoresResponse(file, route) ==
    route \in {<<"pdf_listing">>, <<"rag_query">>} \/ file = None

-----------------------------------------------------------------------------
(* The turn log                                                            *)

\* Mutant of UserTurn: the turn is stored with the role of the assistant.
UserTurn_as_assistant(message, file) ==
    [content |-> message, type |-> "text", role |-> "assistant",
     metadata |-> [has_file |-> file # None, file_content |-> None]]

\* Message(content=message, type="text", role="user", metadata={"has_file": ...})
UserTurn(message, file) ==
    [content |-> message, type |-> "text", role |-> "user",
     metadata |-> [has_file |-> file # None, file_content |-> None]]

\* self.state.messages[-1].metadata.update({...}) after a successful extraction
WithFile(turn, file) ==
    [turn EXCEPT !.metadata.file_content = file]

\* self.state.messages[-1].metadata.update({...}) on whatever turn is last.
MetadataUpdate(turn, file) ==
    IF "file_content" \in DOMAIN turn.metadata
    THEN [turn EXCEPT !.metadata.file_content = file]
    ELSE [turn EXCEPT !.metadata = [agent |-> turn.metadata.agent, file_content |-> file]]

AssistantTurn(response, route) ==
    [content |-> response, type |-> "text", role |-> "assistant",
     metadata |-> [agent |-> route]]

-----------------------------------------------------------------------------
(* Inputs and capability outcomes                                          *)

\* What TextModel answers to the routing prompt (<<"RAISE">>: the call raises).
Replies ==
    { <<"canvas_quiz">>, <<"canvas_post">>, <<"canvas_assignment">>,
      <<"canvas_page">>, <<"general">>, <<"RAISE">> }

\* The replies that matter for a message: none is asked for on a fast path.
RepliesFor(message) ==
    IF _route_message(message, <<"general">>).asked THEN Replies ELSE {<<"general">>}

\* The answers of TextModel used to exercise the routing step: labels of the
\* prompt, one in capitals with blanks around it, one that is not a label of
\* the prompt, the word the upload branch compares with, and a failing call.
RoutingLabels ==
    { <<"canvas_quiz">>, <<"canvas_assignment">>, <<"canvas_page">>,
      <<" ", "Canvas_Post", "\n">>, <<"banana">>, <<"assignment">>, <<"RAISE">> }

\* The answers of TextModel for the turns that stage nothing: one staging
\* label and the three labels whose handlers stage nothing.
OtherLabels ==
    { <<"canvas_quiz">>, <<"canvas_list">>, <<"web_search">>, <<"general">> }

\* The answers in L that matter for a message.
LabelsFor(L, message) ==
    IF _route_message(message, <<"general">>).asked THEN L ELSE {<<"general">>}

\* get_course_id is called by the assignment confirmation only.
CourseOutcomes(P) ==
    IF FirstPending(P) = "assignment" THEN {"found", "none", "raise"} ELSE {"found"}

\* AssignmentAgent.create_assignment catches every exception and returns
\* {"error": ...}; the other create calls may also raise.
BackendOutcomes(P, course) ==
    IF FirstPending(P) = "assignment"
    THEN IF course # "found" THEN {"ok"}
         ELSE IF P.assignment[1].file_content = None THEN {"ok", "fail"}
         ELSE {"ok", "fail", "raise"}
    ELSE {"ok", "fail", "raise"}

\* The outcomes of the capability call of the handler a route selects; one
\* outcome where the handler returns before it makes a call.
CapOutcomes(configured, message, file, route) ==
    LET staging == IF file # None
                   THEN route \notin {<<"pdf_listing">>, <<"rag_query">>}
                   ELSE route \in {<<"canvas_quiz">>, <<"canvas_post">>,
                                   <<"canvas_assignment">>, <<"canvas_page">>}
    IN  IF staging
        THEN IF configured /\ CourseMatch(message) # None
             THEN IF UrlMatch(message) # None /\ route \in {<<"canvas_page">>, <<"page">>}
                  THEN {"ok", "fail", "raise"}
                  ELSE {"ok", "raise"}
             ELSE {"ok"}
        ELSE IF route = <<"pdf_listing">>
             THEN IF pdf_listing_agent THEN {"ok", "fail", "raise"} ELSE {"ok"}
        ELSE IF route = <<"rag_query">>
             THEN IF rag_agent THEN {"ok", "raise"} ELSE {"ok"}
        ELSE IF route = <<"canvas_list">>
             THEN IF configured THEN {"ok", "fail", "raise"} ELSE {"ok"}
        ELSE {"ok", "raise"}

\* generate_title is called by _handle_post_request when no title is given.
GenOutcomes(configured, message, file, route) ==
    IF /\ configured
       /\ CourseMatch(message) # None
       /\ ~TruthyStr(_extract_title(message))
       /\ IF file # None
          THEN route \notin {<<"pdf_listing">>, <<"rag_query">>,
                             <<"assignment">>, <<"page">>, <<"quiz">>}
          ELSE route = <<"canvas_post">>
    THEN {"generated", "fallback"}
    ELSE {"generated"}

-----------------------------------------------------------------------------
(* The state machine                                                       *)

Init ==
    /\ canvas_agent \in BOOLEAN
    /\ messages = <<>>
    /\ pending_quiz = None
    /\ pending_announcement = None
    /\ pending_assignment = None
    /\ pending_page = None
    /\ inflight = {}
    /\ history = <<>>

NoPending == [quiz |-> None, announcement |-> None, assignment |-> None, page |-> None]

SetPending(pend) ==
    /\ pending_quiz' = pend.quiz
    /\ pending_announcement' = pend.announcement
    /\ pending_assignment' = pend.assignment
    /\ pending_page' = pend.page

\* Mutant of Caught: the outermost handler lets the exception through.
Caught_reraises(r) == r

\* The outermost "except Exception" of process_message (lines 370-377): an
\* exception that reaches it becomes the returned error dict.
Caught(r) ==
    IF r.raised
    THEN [r EXCEPT !.response = "Error processing message", !.agent = "error",
                   !.raised = FALSE, !.keys = ResponseKeys \cup {"error"}]
    ELSE r

\* id(self.state): reset_state replaces the SupervisorState object.
StateId == 1 + Cardinality({i \in DOMAIN history : history[i].op = "reset_state"})

\* The HTTP client that sent a request.  Neither endpoint reads it.
ClientOf(in) == IF "client" \in DOMAIN in THEN in.client ELSE 1

\* One observed call: what was sent and by whom, the branch of
\* process_message that handled it, whether a route was computed and whether
\* TextModel was asked for it, the outcome of the capability call, the
\* pending attributes before and after, the create calls made, what the call
\* gave back to its caller, and the turn log as it was when the call arrived.
Obs(op, in, branch, routed, asked, cap, pre, r) ==
    [op |-> op, message |-> in.message, file |-> in.file, client |-> ClientOf(in),
     branch |-> branch, routed |-> routed, asked |-> asked, cap |-> cap,
     pre |-> pre, post |-> r.pend, created |-> r.created,
     response |-> r.response, agent |-> r.agent, raised |-> r.raised,
     keys |-> r.keys,
     conversation_id |-> IF "conversation_id" \in r.keys THEN Some(StateId) ELSE None,
     log_pre |-> messages, label |-> <<>>, route |-> <<>>]

\* The messages that reach the file and routing steps: neither branch of
\* "if lower_message in [...]: ... elif lower_message in [...]:" returned.
FallsThrough(message, P) ==
    \/ IsConfirmation(message) /\ FirstPending(P) = "none"
    \/ ~IsConfirmation(message) /\ ~IsCancellation(message)

\* process_message, confirmation branch (lines 190-209).
ProcessConfirmation(I) ==
    /\ Len(history) < MaxCalls
    /\ inflight = {}
    /\ \E in \in I :
        /\ IsConfirmation(in.message)
        /\ FirstPending(Pending) # "none"
        /\ \E course \in CourseOutcomes(Pending) :
           \E out \in BackendOutcomes(Pending, course) :
             LET r == Confirm(Pending, canvas_agent, course, out) IN
             /\ messages' = Append(messages, UserTurn(in.message, in.file))
             /\ SetPending(r.pend)
             /\ history' = Append(history,
                    Obs("process_message", in, "confirm", FALSE, FALSE, out,
                        Pending, Caught(r)))
    /\ UNCHANGED <<canvas_agent, inflight>>

\* process_message, cancellation branch (lines 190-213).
ProcessCancellation(I) ==
    /\ Len(history) < MaxCalls
    /\ inflight = {}
    /\ \E in \in I :
        /\ ~IsConfirmation(in.message)
        /\ IsCancellation(in.message)
        /\ LET r == _handle_cancellation(Pending) IN
           /\ messages' = Append(messages, UserTurn(in.message, in.file))
           /\ SetPending(r.pend)
           /\ history' = Append(history,
                  Obs("process_message", in, "cancel", FALSE, FALSE, "none",
                      Pending, Caught(r)))
    /\ UNCHANGED <<canvas_agent, inflight>>

\* Mutant of ProcessFileFailure: the failed turn empties the pending attributes.
ProcessFileFailure_clears(I) ==
    /\ Len(history) < MaxCalls
    /\ inflight = {}
    /\ \E in \in I :
        /\ FallsThrough(in.message, Pending)
        /\ in.file # None
        /\ \E fr \in {"fail", "raise"} :
            /\ messages' = Append(messages, UserTurn(in.message, in.file))
            /\ history' = Append(history,
                   IF fr = "fail"
                   THEN Obs("process_message", in, "file_error", FALSE, FALSE, fr, Pending,
                            Caught(Ret(NoPending, "Error processing file",
                                       "document_handler", <<>>)))
                   ELSE Obs("process_message", in, "error", FALSE, FALSE, fr, Pending,
                            Caught(Raise(NoPending))))
    /\ SetPending(NoPending)
    /\ UNCHANGED <<canvas_agent, inflight>>

\* process_message when DocumentExtractor reports failure (lines 215-228) or
\* raises (caught at lines 370-377).
ProcessFileFailure(I) ==
    /\ Len(history) < MaxCalls
    /\ inflight = {}
    /\ \E in \in I :
        /\ FallsThrough(in.message, Pending)
        /\ in.file # None
        /\ \E fr \in {"fail", "raise"} :
            /\ messages' = Append(messages, UserTurn(in.message, in.file))
            /\ history' = Append(history,
                   IF fr = "fail"
                   THEN Obs("process_message", in, "file_error", FALSE, FALSE, fr, Pending,
                            Caught(Ret(Pending, "Error processing file",
                                       "document_handler", <<>>)))
                   ELSE Obs("process_message", in, "error", FALSE, FALSE, fr, Pending,
                            Caught(Raise(Pending))))
    /\ UNCHANGED <<canvas_agent, pending_quiz, pending_announcement,
                   pending_assignment, pending_page, inflight>>

\* process_message, routing and dispatch (lines 190-377), with TextModel
\* answering the routing prompt from L.  traced: the observation keeps the
\* answer of TextModel and the route computed from it.
Dispatching(I, L, traced) ==
    /\ Len(history) < MaxCalls
    /\ inflight = {}
    /\ \E in \in I :
        /\ FallsThrough(in.message, Pending)
        /\ \E reply \in LabelsFor(L, in.message) :
           LET rt == _route_message(in.message, reply) IN
           \E cap \in CapOutcomes(canvas_agent, in.message, in.file, rt.route) :
           \E gen \in GenOutcomes(canvas_agent, in.message, in.file, rt.route) :
             LET r == Dispatch(Pending, canvas_agent, in.message, in.file, rt.route,
                               cap, gen, Len(history) + 1)
                 user == IF in.file # None
                         THEN WithFile(UserTurn(in.message, in.file), in.file)
                         ELSE UserTurn(in.message, in.file)
             IN
             /\ messages' =
                  IF ~r.raised /\ StoresResponse(in.file, rt.route)
                  THEN Append(Append(messages, user), AssistantTurn(r.response, rt.route))
                  ELSE Append(messages, user)
             /\ SetPending(r.pend)
             /\ history' = Append(history,
                    [Obs("process_message", in, IF r.raised THEN "error" ELSE "dispatch",
                         TRUE, rt.asked, cap, Pending, Caught(r))
                       EXCEPT !.label = IF traced /\ rt.asked THEN reply ELSE <<>>,
                              !.route = IF traced THEN rt.route ELSE <<>>])
    /\ UNCHANGED <<canvas_agent, inflight>>

\* process_message, routing and dispatch, with the answers of Replies.
ProcessDispatch(I) == Dispatching(I, Replies, FALSE)

\* What reset_state gives back: nothing.
Returned == [Ret(NoPending, "", "", <<>>) EXCEPT !.keys = {}]

\* Mutant of ResetState: the assignment to pending_page is missing.
ResetState_keeps_page ==
    /\ Len(history) < MaxCalls
    /\ inflight = {}
    /\ messages' = <<>>
    /\ SetPending([NoPending EXCEPT !.page = pending_page])
    /\ history' = Append(history,
           Obs("reset_state", In(<<>>, None), "reset", FALSE, FALSE, "none",
               Pending, [Returned EXCEPT !.pend = [NoPending EXCEPT !.page = pending_page]]))
    /\ UNCHANGED <<canvas_agent, inflight>>

\* reset_state (called by POST /reset-supervisor).
ResetState ==
    /\ Len(history) < MaxCalls
    /\ inflight = {}
    /\ messages' = <<>>
    /\ SetPending(NoPending)
    /\ history' = Append(history,
           Obs("reset_state", In(<<>>, None), "reset", FALSE, FALSE, "none",
               Pending, Returned))
    /\ UNCHANGED <<canvas_agent, inflight>>

Next ==
    \/ ProcessConfirmation(CoreInputs)
    \/ ProcessCancellation(CoreInputs)
    \/ ProcessFileFailure(CoreInputs)
    \/ ProcessDispatch(CoreInputs)
    \/ ResetState

Spec == Init /\ [][Next]_vars

\* Requests to the staging handlers and their confirmation.
MaxRequests == 2

NextRequests ==
    \/ Len(history) < MaxRequests /\ ProcessDispatch(RequestInputs)
    \/ Len(history) < MaxRequests /\ ProcessFileFailure(RequestInputs)
    \/ Len(history) < MaxRequests /\ ProcessConfirmation(RequestInputs)

SpecRequests == Init /\ [][NextRequests]_vars

\* The routing step under the answers of RoutingLabels.
MaxRouted == 2

NextRouting ==
    \/ Len(history) < MaxRouted /\ Dispatching(RoutingInputs, RoutingLabels, TRUE)
    \/ Len(history) < MaxRouted /\ ProcessFileFailure(RoutingInputs)
    \/ Len(history) < MaxRouted /\ ProcessConfirmation(RoutingInputs)

SpecRouting == Init /\ [][NextRouting]_vars

\* The turns that stage nothing, between a staging and its confirmation.
NextOther ==
    \/ Dispatching(StagingInputs, {<<"canvas_quiz">>}, TRUE)
    \/ Dispatching(OtherInputs, OtherLabels, TRUE)
    \/ ProcessConfirmation(YesInputs)

SpecOther == Init /\ [][NextOther]_vars

\* Requests for a quiz or an announcement, one after the other, and "yes".
NextOverwrite ==
    \/ Dispatching(TwoRequests, {<<"canvas_quiz">>, <<"canvas_post">>}, TRUE)
    \/ ProcessConfirmation(YesInputs)

SpecOverwrite == Init /\ [][NextOverwrite]_vars

\* parse_submission_types as a function of its text: every text of at most
\* MaxQueryLen tokens over the words of three of the keys.
MaxQueryLen == 4

QueryTokens == {"text", " ", "entry", "Online", "on", "paper"}

SubmissionQueries == UNION {[1..n -> QueryTokens] : n \in 0..MaxQueryLen}

ParseSubmissionTypes ==
    /\ history = <<>>
    /\ \E query \in SubmissionQueries :
         history' = <<[op |-> "parse_submission_types", message |-> query,
                       result |-> SubmissionList(query)]>>
    /\ UNCHANGED <<canvas_agent, messages, pending_quiz, pending_announcement,
                   pending_assignment, pending_page, inflight>>

SpecSubmission == Init /\ [][ParseSubmissionTypes]_vars

-----------------------------------------------------------------------------
(* process_message as the event loop runs it: a call runs until it reaches *)
(* an await on a capability, is suspended there, and is resumed when the   *)
(* capability answers; while it is suspended other calls run.              *)

\* The calls started so far.
MaxAsync == 3

AsyncInputs ==
    { In(<<"yes">>, None),
      In(<<"Cancel">>, None),
      In(<<"[", "CS101", "]", " ", "title:", " ", "Midterm">>, None),
      In(<<"yes">>, Some("f.pdf")) }

\* A suspended call: its number, its arguments, the await it is suspended at
\* ("extract", "route", "handler", "course", "create"), the pending
\* attributes and the log it found, and its locals: the kind and the action
\* it is confirming, its route.
Suspended(id, in, pc, pre, log_pre, kind, payload, rt) ==
    [id |-> id, message |-> in.message, file |-> in.file, pc |-> pc,
     pre |-> pre, log_pre |-> log_pre, kind |-> kind, payload |-> payload,
     route |-> rt.route, asked |-> rt.asked]

NoRoute == [route |-> <<>>, asked |-> FALSE]

\* The call returns r: it leaves the event loop and is observed.
Return(c, rest, branch, routed, asked, cap, r) ==
    /\ inflight' = rest
    /\ history' = Append(history,
           [Obs("process_message", c, branch, routed, asked, cap, c.pre, Caught(r))
               EXCEPT !.log_pre = c.log_pre])

\* The handler selected by the route runs to its end (lines 246-364).
FinishDispatch(c, rest, rt, cap, gen, log) ==
    LET r == Dispatch(Pending, canvas_agent, c.message, c.file, rt.route, cap, gen, c.id) IN
    /\ messages' = IF ~r.raised /\ StoresResponse(c.file, rt.route)
                   THEN Append(log, AssistantTurn(r.response, rt.route))
                   ELSE log
    /\ SetPending(r.pend)
    /\ Return(c, rest, IF r.raised THEN "error" ELSE "dispatch", TRUE, rt.asked, cap, r)

\* The call enters the handler of its route: a handler that awaits nothing
\* returns at once, any other is suspended at its capability call.
EnterHandler(c, rest, rt, log) ==
    IF Cardinality(CapOutcomes(canvas_agent, c.message, c.file, rt.route)) = 1
    THEN FinishDispatch(c, rest, rt, "ok", "generated", log)
    ELSE /\ messages' = log
         /\ inflight' = rest \cup {[c EXCEPT !.pc = "handler", !.route = rt.route,
                                             !.asked = rt.asked]}
         /\ UNCHANGED <<pending_quiz, pending_announcement, pending_assignment,
                        pending_page, history>>

\* The call enters _route_message: a fast path answers without an await.
EnterRouting(c, rest, log) ==
    LET rt == _route_message(c.message, <<"general">>) IN
    IF ~rt.asked
    THEN EnterHandler(c, rest, rt, log)
    ELSE /\ messages' = log
         /\ inflight' = rest \cup {[c EXCEPT !.pc = "route"]}
         /\ UNCHANGED <<pending_quiz, pending_announcement, pending_assignment,
                        pending_page, history>>

\* process_message from its first statement to its first await (or its
\* return, when it reaches none).
AsyncBegin(I) ==
    /\ Len(history) + Cardinality(inflight) < MaxAsync
    /\ \E in \in I :
        LET id == Len(history) + Cardinality(inflight) + 1
            log == Append(messages, UserTurn(in.message, in.file))
            k == FirstPending(Pending)
            c == Suspended(id, in, "begin", Pending, messages, "none", None, NoRoute)
        IN
        \/ /\ IsConfirmation(in.message)
           /\ k # "none"
           /\ messages' = log
           /\ IF ~canvas_agent
              THEN /\ Return(c, inflight, "confirm", FALSE, FALSE, "none",
                             Confirm(Pending, canvas_agent, "found", "ok"))
                   /\ UNCHANGED <<pending_quiz, pending_announcement,
                                  pending_assignment, pending_page>>
              ELSE /\ inflight' = inflight \cup
                        { IF k = "assignment"
                          THEN [c EXCEPT !.pc = "course", !.kind = k]
                          ELSE [c EXCEPT !.pc = "create", !.kind = k,
                                         !.payload = Pending[k]] }
                   /\ UNCHANGED <<pending_quiz, pending_announcement,
                                  pending_assignment, pending_page, history>>
        \/ /\ ~IsConfirmation(in.message)
           /\ IsCancellation(in.message)
           /\ LET r == _handle_cancellation(Pending) IN
              /\ messages' = log
              /\ SetPending(r.pend)
              /\ Return(c, inflight, "cancel", FALSE, FALSE, "none", r)
        \/ /\ FallsThrough(in.message, Pending)
           /\ IF in.file # None
              THEN /\ messages' = log
                   /\ inflight' = inflight \cup {[c EXCEPT !.pc = "extract"]}
                   /\ UNCHANGED <<pending_quiz, pending_announcement,
                                  pending_assignment, pending_page, history>>
              ELSE EnterRouting(c, inflight, log)
    /\ UNCHANGED canvas_agent

\* The document handler answers (lines 218-235).  On success the metadata
\* of the turn that is last in the log at that moment is updated.
AsyncExtract ==
    /\ \E c \in inflight :
        /\ c.pc = "extract"
        /\ \E fr \in {"ok", "fail", "raise"} :
            LET rest == inflight \ {c} IN
            CASE fr = "fail" ->
                    /\ Return(c, rest, "file_error", FALSE, FALSE, fr,
                              Ret(Pending, "Error processing file", "document_handler", <<>>))
                    /\ UNCHANGED <<messages, pending_quiz, pending_announcement,
                                   pending_assignment, pending_page>>
              [] fr = "raise" ->
                    /\ Return(c, rest, "error", FALSE, FALSE, fr, Raise(Pending))
                    /\ UNCHANGED <<messages, pending_quiz, pending_announcement,
                                   pending_assignment, pending_page>>
              [] OTHER ->
                    EnterRouting(c, rest,
                        [messages EXCEPT ![Len(messages)] =
                            MetadataUpdate(messages[Len(messages)], c.file)])
    /\ UNCHANGED canvas_agent

\* TextModel answers the routing prompt (lines 163-169, 239).
AsyncRoute ==
    /\ \E c \in inflight :
        /\ c.pc = "route"
        /\ \E reply \in RepliesFor(c.message) :
            EnterHandler(c, inflight \ {c}, _route_message(c.message, reply), messages)
    /\ UNCHANGED canvas_agent

\* The capability call of a handler answers and the handler runs to its end.
AsyncHandler ==
    /\ \E c \in inflight :
        /\ c.pc = "handler"
        /\ LET rt == [route |-> c.route, asked |-> c.asked] IN
           \E cap \in CapOutcomes(canvas_agent, c.message, c.file, c.route) :
           \E gen \in GenOutcomes(canvas_agent, c.message, c.file, c.route) :
               FinishDispatch(c, inflight \ {c}, rt, cap, gen, messages)
    /\ UNCHANGED canvas_agent

\* The confirmation handler of c as it runs on the action c read before its
\* await: the text and tag it returns and whether it clears the attribute.
Confirming(c, out) ==
    Confirm([NoPending EXCEPT ![c.kind] = c.payload], canvas_agent, "found", out)

\* get_course_id answers (lines 654-660).  The handler then reads
\* self.pending_assignment again: when another call has emptied it meanwhile
\* the subscript raises TypeError, which the handler's except turns into its
\* error response.
AsyncCourse ==
    /\ \E c \in inflight :
        /\ c.pc = "course"
        /\ \E course \in {"found", "none", "raise"} :
            LET rest == inflight \ {c}
                r == _handle_assignment_confirmation(
                         [NoPending EXCEPT !.assignment = Some([file_content |-> None])],
                         canvas_agent,
                         IF pending_assignment = None THEN "raise" ELSE course, "ok")
            IN
            IF course = "found" /\ pending_assignment # None
            THEN /\ inflight' = rest \cup {[c EXCEPT !.pc = "create",
                                                    !.payload = pending_assignment]}
                 /\ UNCHANGED history
            ELSE Return(c, rest, "confirm", FALSE, FALSE, "ok",
                        Ret(Pending, r.response, r.agent, <<>>))
    /\ UNCHANGED <<canvas_agent, messages, pending_quiz, pending_announcement,
                   pending_assignment, pending_page>>

\* What the create call of a suspended confirmation can do.
CreateOutcomes(c) ==
    IF c.kind = "assignment" /\ c.payload[1].file_content = None
    THEN {"ok", "fail"}
    ELSE {"ok", "fail", "raise"}

\* The create call answers (lines 396-407, 568-582, 617-631, 683-697).  The
\* quiz and announcement handlers kept the staged values in locals; the page
\* and assignment handlers read the attribute again for the success text, and
\* every handler then assigns None to its attribute, whatever is in it.
AsyncCreate ==
    /\ \E c \in inflight :
        /\ c.pc = "create"
        /\ \E out \in CreateOutcomes(c) :
            LET rest == inflight \ {c}
                call == <<Call(c.kind, c.payload[1], out)>>
                rereads == c.kind \in {"page", "assignment"} /\ out = "ok"
                r == IF rereads /\ Pending[c.kind] = None
                     THEN Confirming(c, "raise")
                     ELSE Confirming(c, out)
                cleared == r.pend[c.kind] = None
                pend == IF cleared THEN [Pending EXCEPT ![c.kind] = None] ELSE Pending
            IN
            /\ SetPending(pend)
            /\ Return(c, rest, "confirm", FALSE, FALSE, out,
                      Ret(pend, r.response, r.agent, call))
    /\ UNCHANGED <<canvas_agent, messages>>

NextAsync ==
    \/ AsyncBegin(AsyncInputs)
    \/ AsyncExtract
    \/ AsyncRoute
    \/ AsyncHandler
    \/ AsyncCourse
    \/ AsyncCreate

SpecAsync == Init /\ [][NextAsync]_vars

\* The one supervisor of main_fastapi.py serving the requests of two clients.
NextClients ==
    \/ ProcessConfirmation(ClientInputs)
    \/ ProcessCancellation(ClientInputs)
    \/ ProcessFileFailure(ClientInputs)
    \/ ProcessDispatch(ClientInputs)

SpecClients == Init /\ [][NextClients]_vars

-----------------------------------------------------------------------------
(* Properties.  Every reachable state with a non-empty history is the      *)
(* state right after its last call, so a property of "the call just made"  *)
(* is an invariant over Last.                                              *)

Last == history[Len(history)]

Called == history # <<>> /\ Last.op = "process_message"

\* The kinds whose pending attribute is occupied.
Occupied(P) == {k \in Kinds : P[k] # None}

\* The vocabularies as the specification lists them.
ConfirmationVocabulary ==
    { <<"yes">>, <<"post", " ", "it">>, <<"post">>, <<"yes", " ", "post", " ", "it">> }

CancellationVocabulary ==
    { <<"no">>, <<"cancel">>, <<"dont", " ", "post">>, <<"don't", " ", "post">> }

\* "trimmed, lower-cased text"
Normalised(message) == Strip(Lower(message))

\* The kind a call staged ("none": it staged nothing), and the staged action.
StagedKind(h) ==
    IF h.branch = "dispatch" /\ \E k \in Kinds : h.post[k] # None /\ h.post[k] # h.pre[k]
    THEN CHOOSE k \in Kinds : h.post[k] # None /\ h.post[k] # h.pre[k]
    ELSE "none"

StagedAction(h) == h.post[StagedKind(h)][1]

Resolving(h) == h.branch \in {"confirm", "cancel", "reset"}

\* The tags of the four staging handlers.
StagingAgents == {"canvas_quiz", "canvas_post", "canvas_assignment", "canvas_page"}

\* A message with no [...] token.
NoBracket(message) ==
    ~\E i, j \in DOMAIN message : i < j /\ message[i] = "[" /\ message[j] = "]"

\* C1: after any sequence of messages at most one of the four pending
\* attributes is occupied.
C1_SingleSlot == Cardinality(Occupied(Pending)) <= 1

\* C2: when kind A is staged and then, with no confirmation or cancellation
\* in between, a different kind B is staged, no later confirmation executes
\* the action staged as A, and the first confirmation after B (nothing staged
\* in between) executes the action staged as B only.
C2_LastStagedWins ==
    \A a, b \in DOMAIN history :
        ( /\ a < b
          /\ StagedKind(history[a]) # "none"
          /\ StagedKind(history[b]) # "none"
          /\ StagedKind(history[a]) # StagedKind(history[b])
          /\ \A m \in (a + 1)..(b - 1) : ~Resolving(history[m]) )
        => \A c \in (b + 1)..Len(history) :
             \A n \in DOMAIN history[c].created :
                /\ history[c].created[n].action.sid # StagedAction(history[a]).sid
                /\ ( \A m \in (b + 1)..(c - 1) :
                        ~Resolving(history[m]) /\ StagedKind(history[m]) = "none" )
                   => history[c].created[n].action.sid = StagedAction(history[b]).sid

\* C3: with an action staged, a message whose trimmed, lower-cased text is a
\* confirmation word resolves the staged action, leaves no attribute
\* occupied, and is never routed.
C3_ConfirmationPrecedence ==
    ( /\ Called
      /\ Normalised(Last.message) \in ConfirmationVocabulary
      /\ Occupied(Last.pre) # {} )
    => /\ Last.branch = "confirm"
       /\ ~Last.routed
       /\ ~Last.asked
       /\ Last.post[FirstPending(Last.pre)] = None
       /\ Occupied(Last.post) = {}

\* C4: after a confirmation is processed with an action staged, the slot it
\* resolved is empty whatever the outcome of the execution.
C4_ClearedWhateverOutcome ==
    (Called /\ Last.branch = "confirm")
    => Last.post[FirstPending(Last.pre)] = None

\* C5: a CourseBackend create operation is invoked only while processing a
\* confirmation word that finds a staged action; no other call invokes one.
C5_CreateOnlyOnConfirmation ==
    \A i \in DOMAIN history :
        history[i].created # <<>>
        => /\ history[i].op = "process_message"
           /\ Lower(history[i].message) \in ConfirmationVocabulary
           /\ Occupied(history[i].pre) # {}
           /\ history[i].branch = "confirm"
           /\ \A n \in DOMAIN history[i].created :
                 Some(history[i].created[n].action)
                    = history[i].pre[history[i].created[n].kind]

\* C5 witness: a confirmation that found a staged action invoked create, after
\* a request that staged it without invoking anything.
C5_Witness ==
    /\ Len(history) >= 2
    /\ Last.branch = "confirm"
    /\ Last.created # <<>>
    /\ StagedKind(history[Len(history) - 1]) # "none"
    /\ history[Len(history) - 1].created = <<>>

\* C6: a staged action is handed to a CourseBackend create operation at most
\* once, whatever the confirmations sent after the first one.
C6_AtMostOnce ==
    \A c, d \in DOMAIN history :
        (c < d /\ history[c].created # <<>> /\ history[d].created # <<>>)
        => history[c].created[1].action.sid # history[d].created[1].action.sid

\* C7: with an action staged, a message whose trimmed, lower-cased text is a
\* cancellation word discards it, leaves no attribute occupied and invokes
\* no CourseBackend operation.
C7_Cancellation ==
    ( /\ Called
      /\ Normalised(Last.message) \in CancellationVocabulary
      /\ Occupied(Last.pre) # {} )
    => /\ Last.branch = "cancel"
       /\ Last.post[FirstPending(Last.pre)] = None
       /\ Occupied(Last.post) = {}
       /\ Last.created = <<>>

\* A cancellation word (up to letter case) processed with nothing pending.
CancelOnIdle(h) ==
    /\ h.op = "process_message"
    /\ Lower(h.message) \in CancellationVocabulary
    /\ Occupied(h.pre) = {}

ConfirmOnIdle(h) ==
    /\ h.op = "process_message"
    /\ Normalised(h.message) \in ConfirmationVocabulary
    /\ Occupied(h.pre) = {}

\* C9 as stated: a confirmation word with nothing pending goes through
\* classification and dispatch, invokes no create operation and leaves no
\* attribute occupied.
C9_RoutedAsNormal ==
    (history # <<>> /\ ConfirmOnIdle(Last))
    => /\ Last.routed
       /\ Last.created = <<>>
       /\ Occupied(Last.post) = {}

\* C9 amended: a confirmation word with nothing pending is not handled by the
\* confirmation or cancellation branch; it is classified and dispatched
\* unless a file sent with it fails extraction (then the turn ends with the
\* file error, before classification); it invokes no create operation and
\* leaves no attribute occupied.
C9_ConfirmOnIdle ==
    (history # <<>> /\ ConfirmOnIdle(Last))
    => /\ Last.branch \in {"dispatch", "error", "file_error"}
       /\ Last.routed <=> ~(Last.file # None /\ Last.branch \in {"file_error", "error"}
                             /\ Last.agent \in {"document_handler", "error"}
                             /\ ~Last.asked)
       /\ Last.file = None => Last.routed
       /\ Last.created = <<>>
       /\ Occupied(Last.post) = {}
       /\ Pending = NoPending

\* C9 witness: "yes" with nothing pending was routed to the announcement
\* handler, which asked for the course.
C9_Witness ==
    /\ history # <<>>
    /\ ConfirmOnIdle(Last)
    /\ Last.message = <<"yes">>
    /\ Last.routed
    /\ Last.agent = "canvas_post"
    /\ Last.response = Clarification

\* A message with no [...] token handled by one of the four staging handlers.
NoCourseRequest(h) ==
    /\ h.op = "process_message"
    /\ h.branch = "dispatch"
    /\ h.agent \in StagingAgents
    /\ NoBracket(h.message)

\* C10 as stated: a staging handler given a message with no [...] token
\* answers with the fixed clarification, stages nothing, leaves every pending
\* attribute as it was and makes no backend call.
C10_Clarification ==
    (history # <<>> /\ NoCourseRequest(Last))
    => /\ Last.response = Clarification
       /\ Last.post = Last.pre
       /\ Last.created = <<>>

\* C10 amended: a staging handler given a message with no [...] token answers
\* with the fixed clarification when CourseBackend is configured and with
\* the "Canvas is not configured" response when it is not; either way it
\* stages nothing, leaves every pending attribute as it was and makes no
\* backend call.
C10_CourseBracketRequired ==
    (history # <<>> /\ NoCourseRequest(Last))
    => /\ Last.response = IF canvas_agent THEN Clarification ELSE NotConfigured
       /\ Last.post = Last.pre
       /\ Pending = Last.pre
       /\ Last.created = <<>>

\* C10 witness: with a quiz staged, a message with no [...] token reached the
\* page handler, which asked for the course.
C10_Witness ==
    /\ history # <<>>
    /\ NoCourseRequest(Last)
    /\ Last.agent = "canvas_page"
    /\ Last.response = Clarification
    /\ Last.pre.quiz # None

\* C11: right after reset_state the turn log and the four pending attributes
\* are empty, and a confirmation word sent as the next message executes
\* nothing, whatever was staged before the reset.
C11_ResetClears ==
    \A i \in DOMAIN history :
        history[i].op = "reset_state"
        => /\ history[i].post = NoPending
           /\ i = Len(history) => (messages = <<>> /\ Pending = NoPending)
           /\ i + 1 \in DOMAIN history
              => /\ history[i + 1].pre = NoPending
                 /\ history[i + 1].log_pre = <<>>
                 /\ Normalised(history[i + 1].message) \in ConfirmationVocabulary
                    => /\ history[i + 1].branch # "confirm"
                       /\ history[i + 1].created = <<>>

\* C11 witness: an action was staged, then reset_state ran, then "yes" was sent
\* and created nothing.
C11_Witness ==
    /\ Len(history) = 3
    /\ StagedKind(history[1]) # "none"
    /\ history[2].op = "reset_state"
    /\ Occupied(history[2].pre) # {}
    /\ history[3].message = <<"yes">>
    /\ history[3].created = <<>>
    /\ messages # <<>>

\* C12: process_message never raises to its caller: every call returns a dict
\* with a response text, an agent tag and a conversation identifier, and an
\* exception that leaves a handler or the document extractor is returned
\* with the tag "error".
C12_NeverRaises ==
    \A i \in DOMAIN history :
        history[i].op = "process_message"
        => /\ ~history[i].raised
           /\ ResponseKeys \subseteq history[i].keys
           /\ history[i].conversation_id # None
           /\ history[i].branch = "error"
              => history[i].agent = "error" /\ "error" \in history[i].keys
           /\ (history[i].cap = "raise" /\ history[i].branch # "confirm")
              => history[i].branch = "error"

\* C12 witness: a capability call raised during dispatch and the call
\* returned the error dict.
C12_Witness ==
    /\ Called
    /\ Last.routed
    /\ Last.cap = "raise"
    /\ Last.agent = "error"
    /\ Last.conversation_id = Some(1)

\* C13: a turn that ends in the error dict leaves the pending attributes as
\* they were, and the next message is processed on that state: a confirmation
\* word then runs the confirmation branch on the action staged before the
\* failure.
C13_FailedTurnKeepsStaged ==
    \A i \in DOMAIN history :
        history[i].branch = "error"
        => /\ history[i].post = history[i].pre
           /\ i = Len(history) => Pending = history[i].pre
           /\ i + 1 \in DOMAIN history
              => /\ history[i + 1].pre = history[i].pre
                 /\ ( /\ history[i + 1].op = "process_message"
                      /\ Lower(history[i + 1].message) \in ConfirmationVocabulary
                      /\ Occupied(history[i].pre) # {} )
                    => /\ history[i + 1].branch = "confirm"
                       /\ FirstPending(history[i].pre) # "assignment"
                          => history[i + 1].created # <<>>
                       /\ \A n \in DOMAIN history[i + 1].created :
                             Some(history[i + 1].created[n].action)
                                = history[i].pre[history[i + 1].created[n].kind]

\* C13 witness: an action was staged, the next turn failed, and the
\* confirmation after it handed the staged action to the backend.
C13_Witness ==
    /\ Len(history) = 3
    /\ StagedKind(history[1]) # "none"
    /\ history[2].branch = "error"
    /\ history[3].branch = "confirm"
    /\ history[3].created # <<>>
    /\ history[3].created[1].action.sid = 1

\* The turns a call added to the log.
Added(h, log) == SubSeq(log, Len(h.log_pre) + 1, Len(log))

\* C20: every call of process_message appends exactly one user turn holding
\* the message, as the first thing it adds to the turn log, on every path.
C20_UserTurnFirst ==
    Called
    => /\ Len(messages) > Len(Last.log_pre)
       /\ SubSeq(messages, 1, Len(Last.log_pre)) = Last.log_pre
       /\ Added(Last, messages)[1].role = "user"
       /\ Added(Last, messages)[1].content = Last.message
       /\ Added(Last, messages)[1].metadata.has_file = (Last.file # None)
       /\ Cardinality({n \in DOMAIN Added(Last, messages) :
                          Added(Last, messages)[n].role = "user"}) = 1

\* C20 witness: a call that ended in the error dict left its user turn in the
\* log, after the turns of an earlier call.
C20_Witness ==
    /\ Called
    /\ Last.branch = "error"
    /\ Last.log_pre # <<>>
    /\ messages = Append(Last.log_pre, UserTurn(Last.message, Last.file))

\* A message that mentions a due date which parse_due_date does not accept.
MalformedDue(message) ==
    /\ \E i \in DOMAIN message : LowerToken(message[i]) = "due"
    /\ parse_due_date(message) = None

\* The keys under which a staged action could carry a due date.
DueKeys == {"due", "due_at", "due_date"}

\* C17: a request that names a course and a due date that does not parse, with
\* the capabilities working, never ends in the error dict, and when the
\* assignment handler takes it an assignment is staged with no due date.
C17_DueDateFallback ==
    ( /\ Called
      /\ Last.routed
      /\ Last.cap = "ok"
      /\ canvas_agent
      /\ ~NoBracket(Last.message)
      /\ MalformedDue(Last.message) )
    => /\ Last.branch = "dispatch"
       /\ Last.agent # "error"
       /\ Last.agent = "canvas_assignment"
          => /\ Last.post.assignment # None
             /\ Last.post.assignment # Last.pre.assignment
             /\ Pending.assignment = Last.post.assignment
             /\ DOMAIN Last.post.assignment[1] \cap DueKeys = {}

\* C17 witness: the assignment handler staged a request whose due date does
\* not parse.
C17_Witness ==
    /\ Called
    /\ MalformedDue(Last.message)
    /\ Last.agent = "canvas_assignment"
    /\ StagedKind(Last) = "assignment"
    /\ Last.post.assignment[1].points = 50

\* C18: a staged action never has an absent title, and a request with no
\* title marker is staged with the default of its kind: "Quiz", "Assignment",
\* or for an announcement the generated title or the fixed fallback.
C18_TitleDefaults ==
    /\ \A k \in Kinds : Pending[k] # None => Pending[k][1].title # <<>>
    /\ ( /\ Called
         /\ StagedKind(Last) # "none"
         /\ ~TruthyStr(_extract_title(Last.message)) )
       => /\ StagedKind(Last) = "quiz" => StagedAction(Last).title = <<"Quiz">>
          /\ StagedKind(Last) = "assignment"
             => StagedAction(Last).title = Some(<<"Assignment">>)
          /\ StagedKind(Last) = "announcement"
             => StagedAction(Last).title
                   \in {<<"LLM-title">>, <<"Generated", " ", "Content">>}

\* The numbers that follow a 'points should be' marker in a message, by
\* position.
PointsMarkers(message) ==
    {i \in 1..(Len(message) - 6) :
        /\ SubSeq(message, i, i + 5) = <<"points", " ", "should", " ", "be", " ">>
        /\ IsDigits(message[i + 6])}

\* C19: the points of a staged assignment are the integer of the first
\* 'points should be <int>' marker of the request, and 100 when it has none;
\* they are never negative.
C19_Points ==
    (Called /\ StagedKind(Last) = "assignment")
    => LET points == StagedAction(Last).points
           marks == PointsMarkers(Last.message)
       IN  /\ points \in Nat
           /\ marks = {} => points = 100
           /\ marks # {}
              => points = IntOf(Last.message[
                             (CHOOSE a \in marks : \A b \in marks : a <= b) + 6])

\* C19 witness: an assignment staged with the default (its request gave "-5")
\* was replaced by one staged with the 50 points of its request.
C19_Witness ==
    /\ Len(history) = 2
    /\ StagedKind(history[1]) = "assignment"
    /\ PointsMarkers(history[1].message) = {}
    /\ StagedAction(history[1]).points = 100
    /\ StagedKind(Last) = "assignment"
    /\ PointsMarkers(Last.message) # {}
    /\ StagedAction(Last).points = 50

\* The client whose request staged an action (sid is the number of the call
\* that staged it).
StagedBy(action) == history[action.sid].client

\* C15: an action staged by one conversation is never executed, cancelled or
\* replaced by a message of another conversation, and a conversation's first
\* message finds no turns in its history.
C15_Isolation ==
    \A i \in DOMAIN history :
        LET h == history[i] IN
        /\ \A n \in DOMAIN h.created : StagedBy(h.created[n].action) = h.client
        /\ (h.branch = "cancel" /\ Occupied(h.pre) # {})
           => StagedBy(h.pre[FirstPending(h.pre)][1]) = h.client
        /\ \A k \in Kinds :
              (h.pre[k] # None /\ h.post[k] # h.pre[k])
              => StagedBy(h.pre[k][1]) = h.client
        /\ (\A j \in 1..(i - 1) : history[j].client # h.client) => h.log_pre = <<>>

\* C14: the calls of process_message run one at a time: while a call is
\* suspended at a capability call no other call has started, so at most one
\* call is between its first and its last step.
C14_OneAtATime == Cardinality(inflight) <= 1

IsPrefix(a, b) == Len(a) <= Len(b) /\ SubSeq(b, 1, Len(a)) = a

\* C16: the turn log is append-only: a step of process_message leaves every
\* turn that is in the log where it is and as it is (content, role, metadata),
\* and only reset_state empties the log.
C16_AppendOnly ==
    [][ \/ IsPrefix(messages, messages')
        \/ /\ messages' = <<>>
           /\ Len(history') = Len(history) + 1
           /\ history'[Len(history')].op = "reset_state" ]_vars

\* The calls in which DocumentExtractor was invoked and did not succeed.
FileFailed(h) ==
    /\ h.op = "process_message"
    /\ h.branch = "file_error" \/ (h.branch = "error" /\ ~h.routed)

\* C21: when DocumentExtractor fails on the upload of a message, the turn
\* ends with an error response and nothing else moves: the pending
\* attributes are as before, no route is computed, TextModel is not asked, no
\* handler runs, nothing is created, and the log gains the user turn only.
C21_FileFailureAborts ==
    (history # <<>> /\ FileFailed(Last))
    => /\ Last.file # None
       /\ Last.cap \in {"fail", "raise"}
       /\ Last.post = Last.pre
       /\ Pending = Last.pre
       /\ ~Last.routed /\ ~Last.asked
       /\ Last.route = <<>> /\ Last.label = <<>>
       /\ Last.created = <<>>
       /\ ~Last.raised
       /\ Last.agent \in {"document_handler", "error"}
       /\ Last.response \in {"Error processing file", "Error processing message"}
       /\ Added(Last, messages) = <<UserTurn(Last.message, Last.file)>>

\* C21 witness: an action was staged, then a request with an upload failed
\* at the extraction and the staged action is still there.
C21_Witness ==
    /\ Len(history) = 2
    /\ FileFailed(Last)
    /\ Last.cap = "fail"
    /\ Last.agent = "document_handler"
    /\ Occupied(Last.pre) # {}
    /\ Pending = Last.pre

\* C22: for a message that carries a file, DocumentExtractor has run by the
\* time the confirmation and cancellation words are looked at: a call that
\* confirmed or cancelled with a file has the extracted content on its user
\* turn.
C22_ExtractBeforeVocabulary ==
    (Called /\ Last.file # None /\ Last.branch \in {"confirm", "cancel"})
    => /\ Added(Last, messages) # <<>>
       /\ Added(Last, messages)[1].metadata.file_content = Last.file

\* C23: a dispatched message leaves the handler's response as the last turn
\* of the log, an assistant turn, also when the message came with a file.
C23_ResponseLogged ==
    (Called /\ Last.branch = "dispatch")
    => /\ messages # <<>>
       /\ messages[Len(messages)].role = "assistant"
       /\ messages[Len(messages)].content = Last.response

\* The labels of the routing prompt.
Vocabulary ==
    { <<"rag_query">>, <<"canvas_page">>, <<"canvas_assignment">>, <<"canvas_quiz">>,
      <<"canvas_list">>, <<"web_search">>, <<"canvas_post">>, <<"general">> }

\* The kind of action each staging label stands for.
KindOf(route) ==
    CASE route = <<"canvas_quiz">> -> "quiz"
      [] route = <<"canvas_post">> -> "announcement"
      [] route = <<"canvas_assignment">> -> "assignment"
      [] route = <<"canvas_page">> -> "page"
      [] OTHER -> "none"

\* C24: a message goes to the handler of the label it was given and the
\* response carries that label, with or without a file: a message labelled
\* assignment, quiz or page that stages something stages that kind.
C24_DispatchByIntent ==
    (Called /\ Last.branch = "dispatch" /\ Last.route \in Vocabulary)
    => /\ Last.agent = Last.route[1]
       /\ StagedKind(Last) \in {"none", KindOf(Last.route)}

\* C25: a message that is one of the two commands (the folder listing,
\* whatever its case, or a text that starts with the search prefix) gets its
\* route without TextModel being asked, and every other message gets its
\* route from TextModel.
C25_FastPath ==
    (Called /\ Last.routed)
    => LET m == Strip(Lower(Last.message)) IN
       /\ m = <<"show", " ", "pdfs">>
          => ~Last.asked /\ Last.label = <<>> /\ Last.route = <<"pdf_listing">>
       /\ (m # <<"show", " ", "pdfs">>
           /\ StartsWith(m, <<"query", " ", "the", " ", "pdf", "[">>))
          => ~Last.asked /\ Last.label = <<>> /\ Last.route = <<"rag_query">>
       /\ (m # <<"show", " ", "pdfs">>
           /\ ~StartsWith(m, <<"query", " ", "the", " ", "pdf", "[">>))
          => Last.asked /\ Last.label # <<>>

\* C25 witness: "Show PDFs", in capitals, was routed to the folder listing
\* without TextModel, after a message that TextModel labelled.
C25_Witness ==
    /\ Len(history) = 2
    /\ history[1].asked
    /\ Last.message = <<"Show", " ", "PDFs">>
    /\ Last.routed /\ ~Last.asked
    /\ Last.route = <<"pdf_listing">>
    /\ Last.agent = "pdf_listing"

\* C26: the label of TextModel is lower-cased and trimmed, and a label that
\* is not one of the prompt, or a call of TextModel that raises, gives a turn
\* answered by the general handler: nothing is staged and the response is
\* not an error unless the general handler's own call fails.
C26_UnknownLabelIsGeneral ==
    (Called /\ Last.routed /\ Last.asked)
    => /\ Last.label # <<"RAISE">> => Last.route = Lower(Strip(Last.label))
       /\ Last.label = <<"RAISE">> => Last.route = <<"general">>
       /\ (Last.route \notin Vocabulary /\ Last.cap # "raise")
          => Last.agent = "general" /\ Last.post = Last.pre
       /\ (Last.label = <<"RAISE">> /\ Last.cap # "raise")
          => Last.agent = "general" /\ Last.post = Last.pre

\* The calls in which a staging handler other than the page handler got as
\* far as the distillation of the content.
Distilling(h) ==
    /\ h.op = "process_message" /\ h.routed
    /\ canvas_agent
    /\ ~NoBracket(h.message)
    /\ IF h.file # None
       THEN h.route \notin {<<"pdf_listing">>, <<"rag_query">>, <<"page">>}
       ELSE h.route \in {<<"canvas_quiz">>, <<"canvas_post">>, <<"canvas_assignment">>}

\* C27: when the call of TextModel that distils the content fails, the
\* handler still stages its action, with the raw message as content, and the
\* turn ends with the handler's prompt, not with the error response.
C27_DistillationBestEffort ==
    (history # <<>> /\ Distilling(Last) /\ Last.cap = "raise")
    => /\ Last.agent \in StagingAgents
       /\ StagedKind(Last) # "none"
       /\ StagedAction(Last).content = Last.message

\* C28: a capability call that raises inside a handler (staging,
\* confirmation, list, web search, general) is answered by that handler: the
\* turn is never the error response of process_message.
C28_HandlersContainErrors ==
    (Called /\ Last.cap = "raise" /\ (Last.routed \/ Last.branch = "confirm"))
    => /\ Last.agent # "error"
       /\ "error" \notin Last.keys

\* The calls in which the page handler asked WebFetcher for the link: of the
\* request and was told of a failure.
LinkFailed(h) ==
    /\ h.op = "process_message" /\ h.routed
    /\ canvas_agent
    /\ ~NoBracket(h.message)
    /\ UrlMatch(h.message) # None
    /\ h.route = (IF h.file # None THEN <<"page">> ELSE <<"canvas_page">>)
    /\ h.cap = "fail"

\* C29: a page request whose link: could not be fetched is answered with the
\* failure of the URL extraction by the page handler; no page is staged and
\* every pending attribute is as it was.
C29_LinkFailure ==
    (history # <<>> /\ LinkFailed(Last))
    => /\ Last.branch = "dispatch"
       /\ Last.response = "Failed to extract content from URL"
       /\ Last.agent = "canvas_page"
       /\ Last.post = Last.pre
       /\ Pending = Last.pre
       /\ Last.created = <<>>

\* C29 witness: with an action staged, a page request with a link: failed at
\* the fetch and the staged action is as it was.
C29_Witness ==
    /\ Len(history) = 2
    /\ LinkFailed(Last)
    /\ Occupied(Last.pre) # {}
    /\ Pending = Last.pre
    /\ Last.response = "Failed to extract content from URL"

\* The instant of the first 'due date should be <date> <time> <AM|PM>' of a
\* message whose date and time name a calendar instant; None when it has
\* none.
WellFormedDue(message) ==
    LET at(i) == i + 12 <= Len(message)
                 /\ [k \in 1..8 |-> LowerToken(message[i + k - 1])]
                    = <<"due", " ", "date", " ", "should", " ", "be", " ">>
                 /\ message[i + 9] = " " /\ message[i + 11] = " "
                 /\ Strptime(message[i + 8], message[i + 10], message[i + 12]) # None
        S == {i \in DOMAIN message : at(i)}
    IN  IF S = {} THEN None
        ELSE LET i == CHOOSE a \in S : \A b \in S : a <= b
             IN  Strptime(message[i + 8], message[i + 10], message[i + 12])

\* C30: an assignment staged from a request with a well-formed due date
\* carries the UTC instant of that date, and the create call made on its
\* confirmation is given it.
C30_DueDateStored ==
    /\ (Called /\ StagedKind(Last) = "assignment" /\ WellFormedDue(Last.message) # None)
       => \E k \in DOMAIN StagedAction(Last) \cap DueKeys :
              StagedAction(Last)[k] = WellFormedDue(Last.message)
    /\ (Called /\ Last.branch = "confirm")
       => \A n \in DOMAIN Last.created :
             LET a == Last.created[n].action IN
             (Last.created[n].kind = "assignment"
              /\ WellFormedDue(history[a.sid].message) # None)
             => \E k \in DOMAIN a \cap DueKeys :
                    a[k] = WellFormedDue(history[a.sid].message)

\* The values of the submission-type enumeration.
SubmissionEnum == UNION {kv[2] : kv \in SUBMISSION_TYPES}

\* The keys of SUBMISSION_TYPES that occur in a text.
MatchedKeys(query) == {kv \in SUBMISSION_TYPES : Contains(Lower(query), kv[1])}

\* C31: parse_submission_types returns a non-empty list of enumeration values
\* with no value twice: online_text_entry alone for a text with none of the
\* keys, and otherwise the union of the values of the keys in the text.
C31_SubmissionTypes ==
    (history # <<>> /\ Last.op = "parse_submission_types")
    => LET result == Last.result
           types == BagToSet(result)
       IN  /\ types # {}
           /\ types \subseteq SubmissionEnum
           /\ \A v \in types : result[v] = 1
           /\ MatchedKeys(Last.message) = {} => types = {"online_text_entry"}
           /\ MatchedKeys(Last.message) # {}
              => types = UNION {kv[2] : kv \in MatchedKeys(Last.message)}

\* C31 witness: a text with two keys that share a value ("text entry" and
\* "Online") gave the four online values, each once.
C31_Witness ==
    /\ history # <<>>
    /\ Last.op = "parse_submission_types"
    /\ Last.message = <<"text", " ", "entry", "Online">>
    /\ Cardinality(MatchedKeys(Last.message)) = 2
    /\ BagToSet(Last.result)
         = {"online_text_entry", "online_url", "online_upload", "media_recording"}
    /\ Last.result["online_text_entry"] = 1

\* The order in which the claim ranks the kinds.
Priority == <<"quiz", "announcement", "assignment", "page">>

\* The occupied kind of P that comes first in Priority (P has one).
Chosen(P) ==
    Priority[CHOOSE i \in DOMAIN Priority :
                /\ P[Priority[i]] # None
                /\ \A j \in 1..(i - 1) : P[Priority[j]] = None]

\* The tag of the handlers of a kind.
AgentOf(kind) ==
    CASE kind = "quiz" -> "canvas_quiz"
      [] kind = "announcement" -> "canvas_post"
      [] kind = "assignment" -> "canvas_assignment"
      [] kind = "page" -> "canvas_page"

\* C32: with staged actions of several kinds, a confirmation and a
\* cancellation both take the kind that comes first in the order quiz,
\* announcement, assignment, page, whichever was staged first: the
\* cancellation drops it, the confirmation executes it and nothing else.
C32_SamePriority ==
    (Called /\ Last.branch \in {"confirm", "cancel"} /\ Occupied(Last.pre) # {})
    => LET k == Chosen(Last.pre) IN
       /\ Last.agent = AgentOf(k)
       /\ \A j \in Kinds \ {k} : Last.post[j] = Last.pre[j]
       /\ Last.branch = "cancel" => Last.post[k] = None /\ Last.created = <<>>
       /\ Last.branch = "confirm"
          => /\ Last.post[k] \in {None, Last.pre[k]}
             /\ \A n \in DOMAIN Last.created :
                   /\ Last.created[n].kind = k
                   /\ Last.created[n].action = Last.pre[k][1]

\* C32 witness: an announcement was staged, then a quiz; the cancellation
\* dropped the quiz, staged last, and the announcement is still staged.
C32_Witness ==
    /\ Len(history) = 3
    /\ Last.branch = "cancel"
    /\ Occupied(Last.pre) = {"quiz", "announcement"}
    /\ Last.pre.quiz[1].sid > Last.pre.announcement[1].sid
    /\ Last.post.quiz = None
    /\ Pending.announcement = Last.pre.announcement

\* C33: a confirmation or a cancellation changes at most one pending
\* attribute, the one of the kind it resolves, and a confirmation makes
\* create calls for one kind only.
C33_OneSlotChanges ==
    (Called /\ Last.branch \in {"confirm", "cancel"})
    => /\ Cardinality({k \in Kinds : Last.post[k] # Last.pre[k]}) <= 1
       /\ \A k \in Kinds : Last.post[k] # Last.pre[k] => Last.post[k] = None
       /\ \A k \in Kinds : Pending[k] = Last.post[k]
       /\ Cardinality({Last.created[n].kind : n \in DOMAIN Last.created}) <= 1
       /\ Len(Last.created) <= 1

\* C33 witness: with a quiz and an announcement staged, the confirmation
\* created the quiz and the announcement is staged as before.
C33_Witness ==
    /\ Len(history) = 3
    /\ Last.branch = "confirm"
    /\ Occupied(Last.pre) = {"quiz", "announcement"}
    /\ Len(Last.created) = 1
    /\ Last.created[1].kind = "quiz"
    /\ Last.post.quiz = None
    /\ Pending.announcement = Last.pre.announcement
    /\ Pending.announcement # None

\* The tags of the turns that are not a staging, a confirmation or a
\* cancellation.
OtherAgents ==
    { "canvas_list", "rag_query", "pdf_listing", "web_search", "general",
      "error", "document_handler" }

\* C34: a pending attribute changes only in a confirmation, a cancellation,
\* a reset or the staging of its kind: a turn answered by the course list,
\* the document search, the folder listing, the web search or the general
\* handler, or with a clarification or an error, leaves the four attributes
\* as they were.
C34_OnlyResolutionRemoves ==
    Called
    => /\ \A k \in Kinds :
             Last.post[k] # Last.pre[k]
             => \/ Last.branch \in {"confirm", "cancel"}
                \/ Last.branch = "dispatch" /\ StagedKind(Last) = k
       /\ ( /\ Last.branch \notin {"confirm", "cancel"}
            /\ \/ Last.agent \in OtherAgents
               \/ Last.response \in {Clarification, NotConfigured} )
          => Last.post = Last.pre /\ Pending = Last.pre

\* C34 witness: a quiz was staged, a web search was answered, and the
\* confirmation after it created the quiz staged two turns before.
C34_Witness ==
    /\ Len(history) = 3
    /\ StagedKind(history[1]) = "quiz"
    /\ history[2].agent = "web_search"
    /\ history[2].post = history[1].post
    /\ Last.branch = "confirm"
    /\ Len(Last.created) = 1
    /\ Last.created[1].action = history[1].post.quiz[1]
    /\ Last.created[1].out = "ok"

\* The kind whose preview a call returned ("none": it returned no preview).
PreviewKind(h) ==
    IF h.branch # "dispatch" THEN "none"
    ELSE CASE h.response = "I've prepared the quiz" -> "quiz"
           [] h.response = "Here's the announcement" -> "announcement"
           [] h.response = "I've prepared the assignment" -> "assignment"
           [] h.response = "I've prepared the page" -> "page"
           [] OTHER -> "none"

\* The calls before the last one that returned the preview of kind k.
StagingsOf(k) == {j \in 1..(Len(history) - 1) : PreviewKind(history[j]) = k}

\* What CourseBackend is told of an action.
Sent(action) ==
    [course_name |-> action.course_name, title |-> action.title, content |-> action.content]

\* C35: the staging of a kind that is already staged replaces the staged
\* action, and the create call of a confirmation carries the action of the
\* latest staging of its kind: an action that was replaced is never sent.
C35_Overwrite ==
    /\ (Called /\ PreviewKind(Last) # "none")
       => LET k == PreviewKind(Last) IN
          /\ Pending[k] # None
          /\ Pending[k] = Last.post[k]
          /\ Pending[k][1].sid = Len(history)
          /\ Pending[k][1].course_name = CourseMatch(Last.message)[1]
    /\ (Called /\ Last.branch = "confirm")
       => \A n \in DOMAIN Last.created :
             LET k == Last.created[n].kind
                 a == Last.created[n].action
                 latest == CHOOSE j \in StagingsOf(k) : \A i \in StagingsOf(k) : i <= j
             IN  /\ StagingsOf(k) # {}
                 /\ a = history[latest].post[k][1]
                 /\ a.course_name = CourseMatch(history[latest].message)[1]

\* C35 witness: a quiz for CS101 was staged, then a quiz for CS202 in its
\* place; the confirmation created the second, whose course, title and text
\* are not those of the first.
C35_Witness ==
    /\ Len(history) = 3
    /\ PreviewKind(history[1]) = "quiz"
    /\ PreviewKind(history[2]) = "quiz"
    /\ history[2].pre.quiz = history[1].post.quiz
    /\ history[2].pre.quiz # None
    /\ Last.branch = "confirm"
    /\ Len(Last.created) = 1
    /\ Last.created[1].action = history[2].post.quiz[1]
    /\ Sent(Last.created[1].action).course_name = <<"CS202">>
    /\ Sent(history[1].post.quiz[1]).course_name = <<"CS101">>
    /\ Sent(Last.created[1].action).title # Sent(history[1].post.quiz[1]).title
    /\ Sent(Last.created[1].action).content # Sent(history[1].post.quiz[1]).content

\* C36: a staged action is never in two create calls at once: two
\* confirmations suspended at their create call carry different actions.
C36_OneCreateInFlight ==
    \A c1, c2 \in inflight :
        (c1.pc = "create" /\ c2.pc = "create" /\ c1.id # c2.id)
        => c1.payload # c2.payload

\* C37: a staged action leaves its attribute only when it is itself
\* cancelled or has itself been sent by the confirmation that returns: the
\* end of a confirmation of an earlier action of its kind does not remove it.
C37_NoLostAction ==
    [][ \A k \in Kinds :
          (Pending[k] # None /\ Pending'[k] = None)
          => /\ Len(history') = Len(history) + 1
             /\ LET h == history'[Len(history')] IN
                \/ h.branch = "cancel"
                \/ /\ h.branch = "confirm"
                   /\ h.created # <<>>
                   /\ h.created[1].action = Pending[k][1] ]_vars

\* C38: a supervisor built without Canvas credentials never stages: the four
\* pending attributes are empty in every state, a call answered by a staging
\* handler gets the 'Canvas is not configured' response, no call takes the
\* confirmation branch and no create call is made.
C38_UnconfiguredNeverStages ==
    ~canvas_agent
    => /\ Pending = NoPending
       /\ \A i \in DOMAIN history :
             LET h == history[i] IN
             /\ h.created = <<>>
             /\ h.branch # "confirm"
             /\ h.pre = NoPending /\ h.post = NoPending
             /\ (h.branch = "dispatch" /\ h.agent \in StagingAgents)
                => h.response = NotConfigured

\* C38 witness: without credentials, a request with a course was answered
\* 'Canvas is not configured' by a staging handler, and the "yes" after it
\* found nothing staged and was routed like any other message.
C38_Witness ==
    /\ ~canvas_agent
    /\ Len(history) = 2
    /\ ~NoBracket(history[1].message)
    /\ history[1].agent \in StagingAgents
    /\ history[1].response = NotConfigured
    /\ Last.message = <<"yes">>
    /\ Last.routed
    /\ Pending = NoPending

=============================================================================
